---- MODULE Spec2Model ----
(***************************************************************************)
(* State-machine model of the power-meter firmware: the connection task    *)
(* (MQTT and BLE state machines, notification word, accept-data flag and   *)
(* transport queues), the IMU task's rotation detector, the two side (ADC) *)
(* tasks and the low-speed rendezvous task.                                *)
(*                                                                         *)
(* Scheduling: every task is pinned to core 1 (main.cpp:70-104,            *)
(* power_meter.cpp:31-38).  IMU priority 3, side tasks priority 2,         *)
(* connection task, low-speed task and the Arduino loop (housekeeping)     *)
(* priority 1.  A task takes a step only when no task of higher priority   *)
(* is ready; tasks of equal priority are time-sliced and interleave        *)
(* freely.  Interrupts fire at any time.                                   *)
(***************************************************************************)
EXTENDS Integers, Sequences, FiniteSets, TLC

VARIABLES
    \* ---- connection subsystem ----
    transport,          \* config.connectionMethod: "MQTT" or "BLE"
    connState,          \* state object the connection task is in
    connPc,             \* position inside that state's enter()
    connNotifyValue,    \* connection task notification value (set of bits)
    connNotifyPending,  \* connection task notification state is "received"
    m_taskHandle,       \* Connection::m_taskHandle is non-NULL
    m_connected,        \* Connection::m_connected, the accept-data flag
    wifiUp,             \* WiFi.status() == WL_CONNECTED
    mqttUp,             \* mqtt.connected()
    bleCentral,         \* m_central is a connected central
    bleAdvertising,     \* BLE.advertise() is in effect
    queues,             \* the transport queues, by name
    prodPc,             \* each producer's position inside m_addToQueue
    observed,           \* m_isConnected's local `connected` while m_addToQueue runs
    topPc,              \* top-level state machine (Arduino loop task)
    \* ---- clock and IMU task ----
    now,                \* micros(), modulo TimerModulus
    rotations,          \* IMUManager::rotations
    m_lastRotationTime,
    m_lastRotationDuration,
    m_armRotationCounter,
    m_lastRotationSector,
    m_sendCount,
    imuHowOften,        \* config.imuHowOften
    window,             \* history: the last samples the detector processed
    path,               \* history: the last distinct sectors the detector saw
    \* ---- side tasks (functions of the side) ----
    adcAlive,           \* the side's ADC still produces data-ready edges
    irqAttached,        \* the side's data-ready interrupt is attached
    sideNotifyPending,  \* side task notification state is "received"
    sideNotifyValue,    \* side task notification value (interrupt time)
    m_lastRotation,
    m_energy,
    m_lastTime,
    m_segStartTime,
    averagePower,
    \* ---- low-speed task ----
    lsNotifyValue,      \* low-speed task notification value (set of bits)
    lsNotifyPending,    \* low-speed task notification state is "received"
    lsPc,               \* position inside taskLowSpeed
    lsSuccess,          \* what waitLowSpeedNofity returned
    lsLeft,             \* taskLowSpeed's local `left`
    lsRecord,           \* taskLowSpeed's local `lowSpeed`
    lsLastCount,        \* history: rotation count of the last record enqueued
    \* ---- MQTT publishing ----
    published,          \* history: the last batch published from each queue
    \* ---- Kalman filter ----
    m_xState,           \* Kalman::m_xState: <<angle, angular velocity>>
    m_pCovariance,      \* Kalman::m_pCovariance, row by row
    m_lastTimestamp,    \* Kalman::m_lastTimestamp
    updates,            \* how many times update has run
    predicted,          \* history: the last two predict-only queries and their results
    \* ---- zero-offset calibration (functions of the side) ----
    m_offsetSteps,      \* Side::m_offsetSteps
    offset,             \* config.strain[side].offset
    steadyRaw,          \* what the side's ADC reads with the crank at rest
    torque,             \* history: the torque of the last sample processed
    calibrated,         \* history: a calibration has been started on the side
    \* ---- top-level state machine ----
    topState,           \* the State object runStateMachine is in
    m_flatSuccessiveReadings,
    sleepTime,          \* config.sleepTime
    lowRun,             \* history: successive battery readings below the cutoff
    wakeSources,        \* wake-up sources armed for deep sleep
    \* ---- configuration ----
    mqttPacketSize,     \* config.mqttPacketSize
    prefs,              \* what the preferences store holds under CONF_KEY
    confPc,             \* "boot" until setup has called config.load()
    prefsAtBoot,        \* history: what the store held when the MCU started
    confLast,           \* history: the last payload readJSON was given, and
                        \* the configuration it found
    \* ---- IMU record decimation ----
    imuValid,           \* history: valid IMU samples processed since start
    imuDropped,         \* history: IMU samples with an invalid flag seen since start
    imuOffered,         \* history: calls of addIMU since start
    \* ---- energy behind the reported power ----
    segEnergy,          \* history: m_energy of the side when averagePower was set
    lsEnergy,           \* history: the sum of segEnergy over the sides the
                        \* low-speed task has read averagePower of
    \* ---- sector classifier on its own ----
    angleIn,            \* the angle m_angleToSector is called with next
    sectorArg,          \* the angle it was last called with
    sectorOut,          \* what it returned
    \* ---- a predict-only query in progress (side task) ----
    predPc,             \* "idle", "copied" (after the critical section), "done"
    predTime,           \* predict's argument `time`
    predX,              \* predict's xState
    predP,              \* predict's pCovariance
    predCopyStamp,      \* history: m_lastTimestamp when the copy was made
    predUsedStamp,      \* history: m_lastTimestamp as the time step read it
    \* ---- setLowSpeedData, step by step ----
    snapStep,           \* 0 outside setLowSpeedData, else 1 + fields copied so far
    \* ---- enable() and disable() called in any order ----
    lastCall,           \* history: the most recent of the calls
    calls,              \* history: how many calls have been made
    \* ---- the rotations behind the reported powers ----
    lsLeftRotation,     \* history: the left side's m_lastRotation when the
                        \* low-speed task read its averagePower
    lsRightRotation,    \* history: the same for the right side
    \* ---- pure functions on their own ----
    subState1,          \* the states subtractStates is called with
    subState2,
    subResult,          \* what it returned
    scaleUs,            \* the 32-bit time m_scaleTime1024 is called with, as
                        \* its high and low 16-bit halves
    scaleTime,          \* what it returned
    blePower,           \* lowSpeed.power of the record runActive received
    m_measData,         \* BLEConnection::m_measData after runActive
    rotationLog         \* history: time and duration of every rotation event,
                        \* by rotation count (the boot values first)

connVars == <<transport, connState, connPc, connNotifyValue, connNotifyPending,
              m_taskHandle, m_connected, wifiUp, mqttUp, bleCentral,
              bleAdvertising, queues, prodPc, observed, topPc>>

imuVars == <<now, rotations, m_lastRotationTime,
             m_lastRotationDuration, m_armRotationCounter, m_lastRotationSector,
             m_sendCount, imuHowOften>>

historyVars == <<window, path>>

sideVars == <<adcAlive, irqAttached, sideNotifyPending, sideNotifyValue,
              m_lastRotation, m_energy, m_lastTime, m_segStartTime, averagePower>>

lowVars == <<lsNotifyValue, lsNotifyPending, lsPc, lsSuccess, lsLeft, lsRecord,
             lsLastCount>>

\* What the later sections add to the state.
kalmanVars == <<m_xState, m_pCovariance, m_lastTimestamp, updates, predicted>>

calVars == <<m_offsetSteps, offset, steadyRaw, torque, calibrated>>

topVars == <<topState, m_flatSuccessiveReadings, sleepTime, lowRun, wakeSources>>

confVars == <<mqttPacketSize, prefs, confPc, prefsAtBoot, confLast>>

imuCountVars == <<imuValid, imuOffered, imuDropped>>

powerVars == <<segEnergy, lsEnergy>>

sectorVars == <<angleIn, sectorArg, sectorOut>>

queryVars == <<predPc, predTime, predX, predP, predCopyStamp, predUsedStamp>>

snapVars == <<snapStep, rotationLog>>

pureVars == <<subState1, subState2, subResult, scaleUs, scaleTime, blePower, m_measData>>

rendVars == <<lsLeftRotation, lsRightRotation>>

callVars == <<lastCall, calls>>

auxVars == <<pureVars, rendVars, callVars>>

moreVars == <<confVars, imuCountVars, powerVars, sectorVars, queryVars, snapVars, auxVars>>

extVars == <<published, kalmanVars, calVars, topVars, moreVars>>

\* Everything outside the connection subsystem.
measVars == <<imuVars, historyVars, sideVars, lowVars, extVars>>

vars == <<connVars, measVars>>

----------------------------------------------------------------------------
(* Constants of the program *)

\* #define OFFSET_COMPENSATION_SAMPLES 200
OFFSET_COMPENSATION_SAMPLES == 200

\* #define DEFAULT_STRAIN_OFFSET 0
DEFAULT_STRAIN_OFFSET == 0

\* Successive battery readings below the cutoff that make the battery flat.
MINIMUM_BATTERY_SUCCESSIVE == 3

CONN_NOTIFY_ENABLE == 1

CONN_NOTIFY_DISABLE == 2

\* Queue lengths passed to Connection::begin by both transports.
HousekeepingLength == 1

LowSpeedLength == 1

(* Bounds of the model *)

\* Stand-in for MQTT_FAST_BUFFERING (50 in the source): records per batch.
BatchSize == 2

\* Stand-in for MQTT_FAST_BUFFERING_BUFFER: spare room above one batch.
BatchReserve == 1

----------------------------------------------------------------------------
(* FreeRTOS primitives *)

\* xQueueSend mutated: a full queue gives up its oldest record.
xQueueSendOverwrite(q, cap, item) ==
    IF Len(q) < cap THEN Append(q, item) ELSE Append(Tail(q), item)

\* xQueueSend mutated: the record goes to the head of the queue.
xQueueSendToFront(q, cap, item) == IF Len(q) < cap THEN <<item>> \o q ELSE q

\* xQueueSend(queue, data, 0): append when there is room, otherwise return
\* errQUEUE_FULL at once and leave the queue alone.
xQueueSend(q, cap, item) == IF Len(q) < cap THEN Append(q, item) ELSE q

\* xTaskNotify(handle, bits, eSetBits) on the connection task.
ConnNotify(bits) ==
    /\ connNotifyValue' = connNotifyValue \cup {bits}
    /\ connNotifyPending' = TRUE

Producers == {"imu", "left", "right", "lowspeed", "housekeeping"}

HighPriority == {"imu", "left", "right"}

\* EnumSide's SIDE_LEFT and SIDE_RIGHT.
Sides == {"left", "right"}

QueueNames == {"housekeeping", "lowspeed", "left", "right", "imu"}

\* Connection::begin as called by MQTTConnection::begin / BLEConnection::begin:
\* the length of each queue; 0 means the queue is not created.
QueueLength(t, q) ==
    CASE q = "housekeeping" -> HousekeepingLength
      [] q = "lowspeed" -> LowSpeedLength
      [] OTHER -> IF t = "MQTT" THEN BatchSize + BatchReserve ELSE 0

\* Side task s (priority 2) is blocked in xTaskNotifyWait.
SideBlocked(s) == ~sideNotifyPending[s]

\* The tasks of priority 1 run only while the IMU task and the side tasks are
\* blocked; inside m_addToQueue they are not.
HighPriorityIdle ==
    /\ \A p \in HighPriority : prodPc[p] = "idle"
    /\ \A s \in Sides : SideBlocked(s)

\* The MCU is running (not in deep sleep).
Awake == topPc # "off"

----------------------------------------------------------------------------
(* Producers: Connection::m_addToQueue *)

\* The queue a producer's add... method hands to m_addToQueue.
QueueOf(p) == p

\* A task may take a step: the MCU is awake and no task of higher priority
\* is inside m_addToQueue.
MayRun(p) ==
    /\ Awake
    /\ CASE p = "imu" -> TRUE
         [] p \in {"left", "right"} -> prodPc["imu"] = "idle"
         [] OTHER -> HighPriorityIdle

\* m_addToQueue mutated: the accept-data check is dropped.
ShouldSendAlways(flag) == TRUE

\* m_addToQueue: `if (m_isConnected())` decides whether xQueueSend is called.
ShouldSend(flag) == flag

\* addHighSpeed / addIMU return at once when the queue was never created;
\* housekeeping is produced only inside StateActive's loop.
ProducerCheck(p) ==
    /\ MayRun(p)
    /\ prodPc[p] = "idle"
    /\ QueueLength(transport, QueueOf(p)) > 0
    /\ p = "housekeeping" => topPc = "active"
    /\ observed' = [observed EXCEPT ![p] = m_connected]
    /\ prodPc' = [prodPc EXCEPT ![p] = IF ShouldSend(m_connected) THEN "send" ELSE "idle"]
    /\ UNCHANGED <<transport, connState, connPc, connNotifyValue, connNotifyPending,
                   m_taskHandle, m_connected, wifiUp, mqttUp, bleCentral,
                   bleAdvertising, queues, topPc>>
    /\ UNCHANGED measVars

ProducerSend(p) ==
    /\ MayRun(p)
    /\ prodPc[p] = "send"
    /\ queues' = [queues EXCEPT ![QueueOf(p)] =
                    xQueueSend(@, QueueLength(transport, QueueOf(p)), [src |-> p])]
    /\ prodPc' = [prodPc EXCEPT ![p] = "idle"]
    /\ observed' = [observed EXCEPT ![p] = FALSE]
    /\ UNCHANGED <<transport, connState, connPc, connNotifyValue, connNotifyPending,
                   m_taskHandle, m_connected, wifiUp, mqttUp, bleCentral,
                   bleAdvertising, topPc>>
    /\ UNCHANGED measVars

----------------------------------------------------------------------------
(* Connection task *)

ConnRuns == Awake /\ HighPriorityIdle

\* Connection::isNotificationWaiting: xTaskNotifyWait(0, bits, &value, ticks)
\* returns pdTRUE exactly when a notification is pending; `bits` are cleared
\* on exit only in that case, and the state goes back to not-pending.
NotificationResult(bits) == connNotifyPending /\ bits \in connNotifyValue

NotificationTaken(bits) ==
    /\ connNotifyValue' = IF connNotifyPending THEN connNotifyValue \ {bits}
                          ELSE connNotifyValue
    /\ connNotifyPending' = FALSE

\* setAllowData mutated: the flag is set whatever the argument.
setAllowDataStuck(state) == m_connected' = TRUE

\* Connection::setAllowData
setAllowData(state) == m_connected' = state

\* The state the constructor passes as m_enableState.
EnableState(t) == IF t = "MQTT" THEN "WiFiConnect" ELSE "BLEConnect"

\* taskConnection -> Connection::run
ConnTaskStart ==
    /\ Awake
    /\ connState = "NotStarted"
    /\ m_taskHandle' = TRUE
    /\ connState' = "Disabled"
    /\ connPc' = "enter"
    /\ UNCHANGED <<transport, connNotifyValue, connNotifyPending, m_connected, wifiUp,
                   mqttUp, bleCentral, bleAdvertising, queues, prodPc, observed, topPc>>
    /\ UNCHANGED measVars

DisabledEnter ==
    /\ ConnRuns
    /\ connState = "Disabled" /\ connPc = "enter"
    /\ setAllowData(FALSE)
    /\ connPc' = "wait"
    /\ UNCHANGED <<transport, connState, connNotifyValue, connNotifyPending, m_taskHandle,
                   wifiUp, mqttUp, bleCentral, bleAdvertising, queues, prodPc, observed,
                   topPc>>
    /\ UNCHANGED measVars

\* while (!isNotificationWaiting(portMAX_DELAY, CONN_NOTIFY_ENABLE)): blocks
\* until some notification is pending.
DisabledWait ==
    /\ ConnRuns
    /\ connState = "Disabled" /\ connPc = "wait"
    /\ connNotifyPending
    /\ NotificationTaken(CONN_NOTIFY_ENABLE)
    /\ IF NotificationResult(CONN_NOTIFY_ENABLE)
       THEN connState' = EnableState(transport) /\ connPc' = "enter"
       ELSE UNCHANGED <<connState, connPc>>
    /\ UNCHANGED <<transport, m_taskHandle, m_connected, wifiUp, mqttUp, bleCentral,
                   bleAdvertising, queues, prodPc, observed, topPc>>
    /\ UNCHANGED measVars

WiFiConnectEnter ==
    /\ ConnRuns
    /\ connState = "WiFiConnect" /\ connPc = "enter"
    /\ setAllowData(FALSE)
    /\ wifiUp' = FALSE /\ mqttUp' = FALSE
    /\ connPc' = "poll"
    /\ UNCHANGED <<transport, connState, connNotifyValue, connNotifyPending, m_taskHandle,
                   bleCentral, bleAdvertising, queues, prodPc, observed, topPc>>
    /\ UNCHANGED measVars

\* The wait loop: WiFi.status() is tested before each DELAY_WITH_DISABLE(2).
WiFiConnectPoll ==
    /\ ConnRuns
    /\ connState = "WiFiConnect" /\ connPc = "poll"
    /\ IF wifiUp
       THEN /\ connState' = "MQTTConnect" /\ connPc' = "enter"
            /\ UNCHANGED <<connNotifyValue, connNotifyPending>>
       ELSE /\ NotificationTaken(CONN_NOTIFY_DISABLE)
            /\ IF NotificationResult(CONN_NOTIFY_DISABLE)
               THEN connState' = "Shutdown" /\ connPc' = "s1"
               ELSE UNCHANGED <<connState, connPc>>
    /\ UNCHANGED <<transport, m_taskHandle, m_connected, wifiUp, mqttUp, bleCentral,
                   bleAdvertising, queues, prodPc, observed, topPc>>
    /\ UNCHANGED measVars

MQTTConnectEnter ==
    /\ ConnRuns
    /\ connState = "MQTTConnect" /\ connPc = "enter"
    /\ setAllowData(FALSE)
    /\ connPc' = "poll"
    /\ UNCHANGED <<transport, connState, connNotifyValue, connNotifyPending, m_taskHandle,
                   wifiUp, mqttUp, bleCentral, bleAdvertising, queues, prodPc, observed,
                   topPc>>
    /\ UNCHANGED measVars

\* while (!mqtt.connected()) { mqtt.connect(MQTT_ID); ... : the broker answers or not.
MQTTConnectPoll ==
    /\ ConnRuns
    /\ connState = "MQTTConnect" /\ connPc = "poll"
    /\ IF mqttUp
       THEN /\ connState' = "Active" /\ connPc' = "enter"
            /\ UNCHANGED mqttUp
       ELSE /\ \E ok \in BOOLEAN : mqttUp' = (wifiUp /\ ok)
            /\ connPc' = "delay"
            /\ UNCHANGED connState
    /\ UNCHANGED <<transport, connNotifyValue, connNotifyPending, m_taskHandle, m_connected,
                   wifiUp, bleCentral, bleAdvertising, queues, prodPc, observed, topPc>>
    /\ UNCHANGED measVars

\* DELAY_WITH_DISABLE(100), then the WiFi check, then back to the loop test.
MQTTConnectDelay ==
    /\ ConnRuns
    /\ connState = "MQTTConnect" /\ connPc = "delay"
    /\ NotificationTaken(CONN_NOTIFY_DISABLE)
    /\ IF NotificationResult(CONN_NOTIFY_DISABLE)
       THEN connState' = "Shutdown" /\ connPc' = "s1"
       ELSE IF ~wifiUp
            THEN connState' = "WiFiConnect" /\ connPc' = "enter"
            ELSE connPc' = "poll" /\ UNCHANGED connState
    /\ UNCHANGED <<transport, m_taskHandle, m_connected, wifiUp, mqttUp, bleCentral,
                   bleAdvertising, queues, prodPc, observed, topPc>>
    /\ UNCHANGED measVars

\* runActive: housekeeping and low-speed are received one at a time; a side
\* queue or the IMU queue gives up one batch once it holds a whole batch.
DrainSlow(q) == IF Len(q) > 0 THEN Tail(q) ELSE q

\* Batch publishing mutated: everything queued goes out with the batch.
DrainWhole(q) == IF Len(q) >= BatchSize THEN <<>> ELSE q

\* m_handleSideQueue / m_handleIMUQueue: MQTT_FAST_BUFFERING receives.
DrainBatch(q) == IF Len(q) >= BatchSize THEN SubSeq(q, BatchSize + 1, Len(q)) ELSE q

runActive(t) ==
    queues' = [n \in QueueNames |->
                 IF n \in {"housekeeping", "lowspeed"} THEN DrainSlow(queues[n])
                 ELSE IF t = "MQTT" THEN DrainBatch(queues[n]) ELSE queues[n]]

MQTTActiveEnter ==
    /\ ConnRuns
    /\ transport = "MQTT"
    /\ connState = "Active" /\ connPc = "enter"
    /\ setAllowData(TRUE)
    /\ connPc' = "loop"
    /\ UNCHANGED <<transport, connState, connNotifyValue, connNotifyPending, m_taskHandle,
                   wifiUp, mqttUp, bleCentral, bleAdvertising, queues, prodPc, observed,
                   topPc>>
    /\ UNCHANGED measVars

\* One pass of StateActive's loop: leave on a disable request or a lost
\* link, otherwise runActive.
MQTTActiveStep ==
    /\ ConnRuns
    /\ transport = "MQTT"
    /\ connState = "Active" /\ connPc = "loop"
    /\ NotificationTaken(CONN_NOTIFY_DISABLE)
    /\ IF NotificationResult(CONN_NOTIFY_DISABLE)
       THEN connState' = "Shutdown" /\ connPc' = "s1" /\ UNCHANGED queues
       ELSE IF ~wifiUp
            THEN connState' = "WiFiConnect" /\ connPc' = "enter" /\ UNCHANGED queues
            ELSE IF ~mqttUp
                 THEN connState' = "MQTTConnect" /\ connPc' = "enter" /\ UNCHANGED queues
                 ELSE runActive(transport) /\ UNCHANGED <<connState, connPc>>
    /\ UNCHANGED <<transport, m_taskHandle, m_connected, wifiUp, mqttUp, bleCentral,
                   bleAdvertising, prodPc, observed, topPc>>
    /\ UNCHANGED <<imuVars, historyVars, sideVars, lowVars>>

MQTTActiveLoop == MQTTActiveStep /\ UNCHANGED extVars

BLEConnectEnter ==
    /\ ConnRuns
    /\ connState = "BLEConnect" /\ connPc = "enter"
    /\ setAllowData(FALSE)
    /\ bleAdvertising' = TRUE
    /\ connPc' = "poll"
    /\ UNCHANGED <<transport, connState, connNotifyValue, connNotifyPending, m_taskHandle,
                   wifiUp, mqttUp, bleCentral, queues, prodPc, observed, topPc>>
    /\ UNCHANGED measVars

\* do { m_central = BLE.central(); DELAY_WITH_DISABLE(2); } while (!m_central);
BLEConnectPoll ==
    /\ ConnRuns
    /\ connState = "BLEConnect" /\ connPc = "poll"
    /\ NotificationTaken(CONN_NOTIFY_DISABLE)
    /\ IF NotificationResult(CONN_NOTIFY_DISABLE)
       THEN connState' = "Shutdown" /\ connPc' = "s1"
       ELSE IF bleCentral
            THEN connState' = "Active" /\ connPc' = "enter"
            ELSE UNCHANGED <<connState, connPc>>
    /\ UNCHANGED <<transport, m_taskHandle, m_connected, wifiUp, mqttUp, bleCentral,
                   bleAdvertising, queues, prodPc, observed, topPc>>
    /\ UNCHANGED measVars

BLEActiveEnter ==
    /\ ConnRuns
    /\ transport = "BLE"
    /\ connState = "Active" /\ connPc = "enter"
    /\ setAllowData(TRUE)
    /\ connPc' = "loop"
    /\ UNCHANGED <<transport, connState, connNotifyValue, connNotifyPending, m_taskHandle,
                   wifiUp, mqttUp, bleCentral, bleAdvertising, queues, prodPc, observed,
                   topPc>>
    /\ UNCHANGED measVars

\* while (m_central.connected() && !isDisableWaiting(1)) runActive();
\* return &m_stateBLEConnect;  -- the only exit of the loop.
BLEActiveLoop ==
    /\ ConnRuns
    /\ transport = "BLE"
    /\ connState = "Active" /\ connPc = "loop"
    /\ IF bleCentral
       THEN /\ NotificationTaken(CONN_NOTIFY_DISABLE)
            /\ IF NotificationResult(CONN_NOTIFY_DISABLE)
               THEN connState' = "BLEConnect" /\ connPc' = "enter" /\ UNCHANGED queues
               ELSE runActive(transport) /\ UNCHANGED <<connState, connPc>>
       ELSE /\ connState' = "BLEConnect" /\ connPc' = "enter"
            /\ UNCHANGED <<queues, connNotifyValue, connNotifyPending>>
    /\ UNCHANGED <<transport, m_taskHandle, m_connected, wifiUp, mqttUp, bleCentral,
                   bleAdvertising, prodPc, observed, topPc>>
    /\ UNCHANGED measVars

\* StateShutdown::enter mutated: the transport is released before the flag
\* is cleared.
ShutdownStepReleaseFirst(t, pc) ==
    CASE pc = "s1" -> IF t = "MQTT" THEN "mqttDisconnect" ELSE "centralDisconnect"
      [] pc = "s2" -> "setAllowData"
      [] OTHER -> IF t = "MQTT" THEN "wifiDisconnect" ELSE "stopAdvertise"

\* The statement StateShutdown::enter executes at each position.
ShutdownStep(t, pc) ==
    CASE pc = "s1" -> "setAllowData"
      [] pc = "s2" -> IF t = "MQTT" THEN "mqttDisconnect" ELSE "centralDisconnect"
      [] OTHER -> IF t = "MQTT" THEN "wifiDisconnect" ELSE "stopAdvertise"

ReleaseSteps == {"mqttDisconnect", "wifiDisconnect", "centralDisconnect", "stopAdvertise"}

ShutdownRun ==
    /\ ConnRuns
    /\ connState = "Shutdown"
    /\ LET step == ShutdownStep(transport, connPc) IN
         /\ m_connected' = IF step = "setAllowData" THEN FALSE ELSE m_connected
         /\ mqttUp' = IF step \in {"mqttDisconnect", "wifiDisconnect"} THEN FALSE ELSE mqttUp
         /\ wifiUp' = IF step = "wifiDisconnect" THEN FALSE ELSE wifiUp
         /\ bleCentral' = IF step = "centralDisconnect" THEN FALSE ELSE bleCentral
         /\ bleAdvertising' = IF step = "stopAdvertise" THEN FALSE ELSE bleAdvertising
    /\ IF connPc = "s3"
       THEN connState' = "Disabled" /\ connPc' = "enter"
       ELSE connPc' = (IF connPc = "s1" THEN "s2" ELSE "s3") /\ UNCHANGED connState
    /\ UNCHANGED <<transport, connNotifyValue, connNotifyPending, m_taskHandle, queues,
                   prodPc, observed, topPc>>
    /\ UNCHANGED measVars

----------------------------------------------------------------------------
(* Environment of the connection task *)

\* The access point accepts the station after WiFi.begin().
WifiConnects ==
    /\ Awake
    /\ transport = "MQTT"
    /\ connState \in {"WiFiConnect", "MQTTConnect", "Active"} /\ connPc # "enter"
    /\ ~wifiUp
    /\ wifiUp' = TRUE
    /\ UNCHANGED <<transport, connState, connPc, connNotifyValue, connNotifyPending,
                   m_taskHandle, m_connected, mqttUp, bleCentral, bleAdvertising, queues,
                   prodPc, observed, topPc>>
    /\ UNCHANGED measVars

\* WiFi is lost (and the broker connection with it), or the broker alone.
LinkDrops ==
    /\ Awake
    /\ \/ wifiUp /\ wifiUp' = FALSE /\ mqttUp' = FALSE
       \/ mqttUp /\ mqttUp' = FALSE /\ UNCHANGED wifiUp
    /\ UNCHANGED <<transport, connState, connPc, connNotifyValue, connNotifyPending,
                   m_taskHandle, m_connected, bleCentral, bleAdvertising, queues, prodPc,
                   observed, topPc>>
    /\ UNCHANGED measVars

\* A central connects while the peripheral advertises, or goes away.
CentralChanges ==
    /\ Awake
    /\ \/ bleAdvertising /\ ~bleCentral /\ bleCentral' = TRUE
       \/ bleCentral /\ bleCentral' = FALSE
    /\ UNCHANGED <<transport, connState, connPc, connNotifyValue, connNotifyPending,
                   m_taskHandle, m_connected, wifiUp, mqttUp, bleAdvertising, queues,
                   prodPc, observed, topPc>>
    /\ UNCHANGED measVars

----------------------------------------------------------------------------
(* Top-level state machine (Arduino loop task, priority 1) *)

\* setup() mutated: no delay after creating the connection task, so that the
\* loop task goes on before the connection task has run.
TopSetupDoneNoDelay ==
    /\ topPc = "setup"
    /\ topPc' = "boot"
    /\ UNCHANGED <<transport, connState, connPc, connNotifyValue, connNotifyPending,
                   m_taskHandle, m_connected, wifiUp, mqttUp, bleCentral, bleAdvertising,
                   queues, prodPc, observed>>
    /\ UNCHANGED measVars

\* setup(): delay(100) after creating the connection task; the loop task is
\* blocked for 100 ms and the connection task, the only other task, runs
\* until it blocks in StateDisabled.
TopSetupDone ==
    /\ topPc = "setup"
    /\ connState = "Disabled" /\ connPc = "wait"
    /\ topPc' = "boot"
    /\ UNCHANGED <<transport, connState, connPc, connNotifyValue, connNotifyPending,
                   m_taskHandle, m_connected, wifiUp, mqttUp, bleCentral, bleAdvertising,
                   queues, prodPc, observed>>
    /\ UNCHANGED measVars

\* Connection::enable / Connection::disable
SendNotification(bits) ==
    IF m_taskHandle THEN ConnNotify(bits)
    ELSE UNCHANGED <<connNotifyValue, connNotifyPending>>

\* StateActive::enter: connectionBasePtr->enable(); powerMeter.powerUp();
TopEnable ==
    /\ HighPriorityIdle
    /\ topPc = "boot"
    /\ SendNotification(CONN_NOTIFY_ENABLE)
    /\ topPc' = "active"
    /\ UNCHANGED <<transport, connState, connPc, m_taskHandle, m_connected, wifiUp, mqttUp,
                   bleCentral, bleAdvertising, queues, prodPc, observed>>
    /\ UNCHANGED measVars

\* StateActive::enter returns &m_sleepState or &m_flatState.
TopLeaveActive ==
    /\ HighPriorityIdle
    /\ topPc = "active" /\ prodPc["housekeeping"] = "idle"
    /\ topPc' = "leaving"
    /\ UNCHANGED <<transport, connState, connPc, connNotifyValue, connNotifyPending,
                   m_taskHandle, m_connected, wifiUp, mqttUp, bleCentral, bleAdvertising,
                   queues, prodPc, observed>>
    /\ UNCHANGED measVars

\* StateSleep::enter / StateFlatBattery::enter: connectionBasePtr->disable();
TopDisable ==
    /\ HighPriorityIdle
    /\ topPc = "leaving"
    /\ SendNotification(CONN_NOTIFY_DISABLE)
    /\ topPc' = "delay"
    /\ UNCHANGED <<transport, connState, connPc, m_taskHandle, m_connected, wifiUp, mqttUp,
                   bleCentral, bleAdvertising, queues, prodPc, observed>>
    /\ UNCHANGED measVars

\* ... delay(2000); powerMeter.powerDown(); esp_deep_sleep_start();
TopPowerDown ==
    /\ HighPriorityIdle
    /\ topPc = "delay"
    /\ topPc' = "off"
    /\ UNCHANGED <<transport, connState, connPc, connNotifyValue, connNotifyPending,
                   m_taskHandle, m_connected, wifiUp, mqttUp, bleCentral, bleAdvertising,
                   queues, prodPc, observed>>
    /\ UNCHANGED measVars

----------------------------------------------------------------------------
(* Clock, floats and the IMU task *)

\* Stand-in for 2^32: every uint32_t time is taken modulo this value.
TimerModulus == 8

\* The clock is followed up to this reading of micros(), across the wrap
\* when it starts above it; events after it read the same time.
MaxTime == 2

\* The crank stops completing rotations once this many were counted.
MaxRot == 1

\* Stand-in for 1000000: the ticks of micros() in one second (the 1e-6 and
\* the 1000000L of the source).
TicksPerSecond == 2

\* micros() moves on between any two steps of the program.
ClockAdvance ==
    /\ Awake
    /\ now # MaxTime
    /\ now' = (now + 1) % TimerModulus
    /\ UNCHANGED <<rotations, m_lastRotationTime, m_lastRotationDuration,
                   m_armRotationCounter, m_lastRotationSector, m_sendCount, imuHowOften>>
    /\ UNCHANGED <<connVars, historyVars, extVars, sideVars, lowVars>>

\* uint32_t subtraction.
TimeSub(a, b) == (a - b) % TimerModulus

Abs(i) == IF i < 0 THEN -i ELSE i

RECURSIVE GCD(_, _)
GCD(a, b) == IF b = 0 THEN a ELSE GCD(b, a % b)

\* F applied to the value of v.  (TLC passes an operator's arguments by name;
\* the bound variable of a set constructor holds a value.)
Bind(v, F(_)) == CHOOSE r \in {F(x) : x \in {v}} : TRUE

\* A float is a finite rational in lowest terms, an infinity or a NaN.
Fin(n, d) ==
    Bind(<<n, d, GCD(Abs(n), d)>>,
         LAMBDA q : [k |-> "fin", n |-> q[1] \div q[3], d |-> q[2] \div q[3]])

Inf(sign) == [k |-> "inf", n |-> sign, d |-> 0]

NaN == [k |-> "nan", n |-> 0, d |-> 0]

FInt(i) == Fin(i, 1)

Sign(x) == IF x.n < 0 THEN -1 ELSE 1

\* The sum of two finite floats.
FinAdd(a, b, g) == Fin(a.n * (b.d \div g) + b.n * (a.d \div g), (a.d \div g) * b.d)

\* The quotient of two finite floats, the divisor not zero.
FinDiv(a, b, g) == Fin(Sign(b) * a.n * (b.d \div g), Abs(b.n) * (a.d \div g))

\* IEEE-754 addition, multiplication and division, without rounding (common
\* factors of the denominators are cancelled before multiplying).
FAdd(x, y) ==
    Bind(<<x, y>>, LAMBDA p :
        LET a == p[1]
            b == p[2]
        IN  CASE a.k = "nan" \/ b.k = "nan" -> NaN
              [] a.k = "inf" /\ b.k = "inf" -> IF a.n = b.n THEN a ELSE NaN
              [] a.k = "inf" -> a
              [] b.k = "inf" -> b
              [] OTHER -> Bind(GCD(a.d, b.d), LAMBDA g : FinAdd(a, b, g)))

FMul(x, y) ==
    Bind(<<x, y>>, LAMBDA p :
        LET a == p[1]
            b == p[2]
        IN  CASE a.k = "nan" \/ b.k = "nan" -> NaN
              [] a.k = "inf" \/ b.k = "inf" ->
                    IF (a.k = "fin" /\ a.n = 0) \/ (b.k = "fin" /\ b.n = 0)
                    THEN NaN ELSE Inf(Sign(a) * Sign(b))
              [] OTHER -> Fin(a.n * b.n, a.d * b.d))

FDiv(x, y) ==
    Bind(<<x, y>>, LAMBDA p :
        LET a == p[1]
            b == p[2]
        IN  CASE a.k = "nan" \/ b.k = "nan" -> NaN
              [] a.k = "inf" /\ b.k = "inf" -> NaN
              [] a.k = "inf" -> Inf(Sign(a) * Sign(b))
              [] b.k = "inf" -> FInt(0)
              [] b.n = 0 -> IF a.n = 0 THEN NaN ELSE Inf(Sign(a))
              [] OTHER -> Bind(GCD(a.d, b.d), LAMBDA g : FinDiv(a, b, g)))

FNeg(a) == IF a.k = "nan" THEN NaN ELSE [a EXCEPT !.n = -a.n]

FSub(a, b) == FAdd(a, FNeg(b))

\* a < b; false when either is a NaN.
FLt(x, y) ==
    Bind(<<x, y>>, LAMBDA p :
        LET a == p[1]
            b == p[2]
        IN  CASE a.k = "nan" \/ b.k = "nan" -> FALSE
              [] a.k = "inf" -> a.n < 0 /\ ~(b.k = "inf" /\ b.n < 0)
              [] b.k = "inf" -> b.n > 0
              [] OTHER -> a.n * b.d < b.n * a.d)

FGt(a, b) == FLt(b, a)

\* a <= b; false when either is a NaN.
FLe(a, b) == a.k # "nan" /\ b.k # "nan" /\ ~FLt(b, a)

\* fmodf for finite x and y > 0: x minus y times the quotient rounded
\* towards zero.
fmodf(x, y) ==
    Bind(FDiv(x, y), LAMBDA q :
        FSub(x, FMul(FInt(IF q.n >= 0 THEN q.n \div q.d ELSE -((-q.n) \div q.d)), y)))

\* Angles in units of pi/3; the filter's position lies in (-pi, pi].  One
\* angle per sector, the two sector edges among them.
Angles == {FInt(-2), FInt(-1), FInt(1)}

\* M_PI / 3 in those units.
SectorEdge == 1

\* Classifier mutated: both edges belong to the sector below them.
m_angleToSectorEdgesBelow(angle) ==
    IF FLe(angle, FInt(-SectorEdge)) THEN 0
    ELSE IF FLe(angle, FInt(SectorEdge)) THEN 1
    ELSE 2

\* IMUManager::m_angleToSector
m_angleToSector(angle) ==
    IF FLt(angle, FInt(-SectorEdge)) THEN 0
    ELSE IF FLt(angle, FInt(SectorEdge)) THEN 1
    ELSE 2

\* processIMUEvent: "Arm trigger if crossing from sector 0 to sector 1".
ArmsCounter(sector, last) == sector = 1 /\ last = 0

\* Detector mutated: any return to sector 0 while armed counts.
RotationCompleteAnyReturn(armed, sector, last) == armed /\ sector = 0

\* processIMUEvent: "If trigger is armed and we crossed from sector 2 back to
\* sector 0, increase the count".
RotationComplete(armed, sector, last) == armed /\ sector = 0 /\ last = 2

\* processIMUEvent on a sample taken at time t whose validity is `valid` and
\* for which the filter's position estimate is `angle`.
processIMUEvent(valid, angle, t) ==
    LET sector == m_angleToSector(angle)
        send == m_sendCount >= imuHowOften
        armed == m_armRotationCounter \/ ArmsCounter(sector, m_lastRotationSector)
        complete == RotationComplete(armed, sector, m_lastRotationSector)
    IN  IF valid
        THEN /\ queues' = IF send /\ QueueLength(transport, "imu") > 0 /\ ShouldSend(m_connected)
                          THEN [queues EXCEPT !["imu"] =
                                  xQueueSend(@, QueueLength(transport, "imu"),
                                             [src |-> "imu", timestamp |-> t])]
                          ELSE queues
             /\ m_sendCount' = (IF send THEN 0 ELSE m_sendCount) + 1
             /\ m_armRotationCounter' = (armed /\ ~complete)
             /\ rotations' = IF complete THEN rotations + 1 ELSE rotations
             /\ m_lastRotationDuration' = IF complete THEN TimeSub(t, m_lastRotationTime)
                                          ELSE m_lastRotationDuration
             /\ m_lastRotationTime' = IF complete THEN t ELSE m_lastRotationTime
             /\ m_lastRotationSector' = sector
        ELSE UNCHANGED <<queues, m_sendCount, m_armRotationCounter, rotations,
                         m_lastRotationDuration, m_lastRotationTime, m_lastRotationSector>>

\* The sample the IMU hands over: any validity, any angle, except that the
\* crank completes no rotation beyond MaxRot.
Samples ==
    {s \in [valid : BOOLEAN, angle : Angles] :
        rotations = MaxRot =>
            m_angleToSector(s.angle) # 0 \/ m_lastRotationSector # 2}

\* irqIMUActive and taskIMU: the FIFO interrupt (watermark 1) stores micros()
\* in imuTime and wakes the IMU task, which has the highest priority and so
\* runs the FIFO callback before any other task takes a step; imuTime lives
\* only between the two.
IMUSampleStep(s) ==
    /\ topPc = "active"
    /\ processIMUEvent(s.valid, s.angle, now)
    /\ UNCHANGED <<now, imuHowOften>>
    /\ UNCHANGED <<transport, connState, connPc, connNotifyValue, connNotifyPending,
                   m_taskHandle, m_connected, wifiUp, mqttUp, bleCentral, bleAdvertising,
                   prodPc, observed, topPc>>
    /\ UNCHANGED <<sideVars, lowVars>>

IMUTakeSample(s) == IMUSampleStep(s) /\ UNCHANGED extVars

IMUTask == \E s \in Samples : IMUTakeSample(s) /\ UNCHANGED historyVars

\* One forward cycle of the sectors; the history is as long as the cycle.
ForwardCycle == <<0, 1, 2, 0>>

WindowLength == Len(ForwardCycle)

LastOf(seq, n) == IF Len(seq) <= n THEN seq ELSE SubSeq(seq, Len(seq) - n + 1, Len(seq))

\* The IMU task's step together with the history of what the detector saw:
\* per valid sample its sector, the detector's state before it and the
\* rotation count before and after; and the run of distinct sectors.
IMUTaskObserved ==
    \E s \in Samples :
        /\ IMUTakeSample(s)
        /\ LET sector == m_angleToSector(s.angle)
               entry == [sector |-> sector, armed |-> m_armRotationCounter,
                         last |-> m_lastRotationSector, before |-> rotations,
                         after |-> rotations']
           IN  IF s.valid
               THEN /\ window' = LastOf(Append(window, entry), WindowLength)
                    /\ path' = IF path[Len(path)] = sector THEN path
                               ELSE LastOf(Append(path, sector), WindowLength)
               ELSE UNCHANGED historyVars

----------------------------------------------------------------------------
(* Kalman filter: Kalman<T>::update, predict, limitAngle, subtractStates *)

\* The filter takes this many measurements.
MaxUpdates == 1

\* M_PI and 2 * M_PI in units of pi/3.
Pi == 3 * SectorEdge

TwoPi == 2 * Pi

\* 2x2 matrices are written row by row: <<m11, m12, m21, m22>>.
MAdd(A, B) == [i \in 1..4 |-> FAdd(A[i], B[i])]

MSub(A, B) == [i \in 1..4 |-> FSub(A[i], B[i])]

MMul(A, B) ==
    <<FAdd(FMul(A[1], B[1]), FMul(A[2], B[3])), FAdd(FMul(A[1], B[2]), FMul(A[2], B[4])),
      FAdd(FMul(A[3], B[1]), FMul(A[4], B[3])), FAdd(FMul(A[3], B[2]), FMul(A[4], B[4]))>>

\* ~M, the transpose.
MTranspose(A) == <<A[1], A[3], A[2], A[4]>>

\* Inverse(M) of an invertible matrix.
MInverse(A) ==
    Bind(FSub(FMul(A[1], A[4]), FMul(A[2], A[3])), LAMBDA det :
        <<FDiv(A[4], det), FDiv(FNeg(A[2]), det), FDiv(FNeg(A[3]), det), FDiv(A[1], det)>>)

MVec(A, v) ==
    <<FAdd(FMul(A[1], v[1]), FMul(A[2], v[2])), FAdd(FMul(A[3], v[1]), FMul(A[4], v[2]))>>

\* limitAngle mutated: one correction instead of the loop.
limitAngleOnce(input) ==
    IF FGt(input, FInt(Pi)) THEN FSub(input, FInt(TwoPi))
    ELSE IF FLe(input, FInt(-Pi)) THEN FAdd(input, FInt(TwoPi))
    ELSE input

\* Kalman<T>::limitAngle: while (input > M_PI || input <= -M_PI) the angle is
\* moved by one turn towards the interval.
RECURSIVE limitAngle(_)
limitAngle(input) ==
    IF FGt(input, FInt(Pi)) THEN limitAngle(FSub(input, FInt(TwoPi)))
    ELSE IF FLe(input, FInt(-Pi)) THEN limitAngle(FAdd(input, FInt(TwoPi)))
    ELSE input

\* subtractStates mutated: the difference goes into fmodf without the turn
\* added to it.
subtractStatesNoTurn(state1, state2) ==
    Bind(fmodf(FSub(state1[1], state2[1]), FInt(TwoPi)), LAMBDA angleDiff :
        <<IF FGt(angleDiff, FInt(Pi)) THEN FNeg(FSub(FInt(TwoPi), angleDiff)) ELSE angleDiff,
          FSub(state1[2], state2[2])>>)

\* Kalman<T>::subtractStates: the shorter way round for the angle.
subtractStates(state1, state2) ==
    Bind(fmodf(FAdd(FSub(state1[1], state2[1]), FInt(TwoPi)), FInt(TwoPi)), LAMBDA angleDiff :
        <<IF FGt(angleDiff, FInt(Pi)) THEN FNeg(FSub(FInt(TwoPi), angleDiff)) ELSE angleDiff,
          FSub(state1[2], state2[2])>>)

\* Time step mutated: the difference is taken as a signed number.
timestepSigned(time, last) == Fin(time - last, TicksPerSecond)

\* predict: T timestep = (time - m_lastTimestamp) * 1e-6, the difference
\* being one of uint32_t.
timestep(time, last) == Fin(TimeSub(time, last), TicksPerSecond)

\* config.qEnvCovariance and config.rMeasCovariance (any values may be
\* configured), and KALMAN_X0, KALMAN_P0.
m_qEnvCovariance == <<FInt(1), FInt(0), FInt(0), FInt(1)>>

m_rMeasCovariance == <<FInt(1), FInt(0), FInt(0), FInt(1)>>

KALMAN_X0 == <<FInt(0), FInt(0)>>

KALMAN_P0 == <<FInt(1), FInt(1), FInt(1), FInt(1)>>

\* The prediction step of predict for a time step dt.
predictStep(xState, pCovariance, dt) ==
    Bind(<<xState, pCovariance, <<FInt(1), dt, FInt(0), FInt(1)>>>>, LAMBDA a :
        Bind(MVec(a[3], a[1]), LAMBDA x :
            [x |-> <<limitAngle(x[1]), x[2]>>,
             p |-> MAdd(MMul(MMul(a[3], a[2]), MTranspose(a[3])), m_qEnvCovariance)]))

\* Kalman<T>::predict(time, xState, pCovariance) on the stored state.
predict(time) == predictStep(m_xState, m_pCovariance, timestep(time, m_lastTimestamp))

\* The refinement step of update on a prediction.
refine(pred, measurement) ==
    Bind(MMul(pred.p, MInverse(MAdd(pred.p, m_rMeasCovariance))), LAMBDA kPrime :
        Bind(MVec(kPrime, subtractStates(measurement, pred.x)), LAMBDA dx :
            [x |-> <<limitAngle(FAdd(pred.x[1], dx[1])), FAdd(pred.x[2], dx[2])>>,
             p |-> MSub(pred.p, MMul(kPrime, pred.p))]))

\* Stored state mutated: predict works on the member itself.
StateAfterPredictAliased(stored, result) == result

\* predict copies the member into xState and works on the copy.
StateAfterPredict(stored, result) == stored

\* The times handed to update and predict, and the angles and velocities of
\* stored states and measurements: at and beyond both ends of (-pi, pi],
\* slow and fast enough for several turns in one time step.
Times == {0, 1, TimerModulus - 1}

StoredStates == {<<FInt(a), FInt(w * TicksPerSecond)>> : a \in {-3, 3, 4}, w \in {-7, 0, 2}}

Measurements == {<<FInt(-2), FInt(0)>>, <<FInt(3), FInt(2 * TicksPerSecond)>>}

\* No predict-only query since the last update.
NoPrediction == <<>>

KalmanBoot ==
    /\ m_xState = KALMAN_X0
    /\ m_pCovariance = KALMAN_P0
    /\ m_lastTimestamp = 0
    /\ updates = 0
    /\ predicted = NoPrediction

\* IMUManager::processIMUEvent -> kalman.update(measurement, time).
KalmanUpdate(measurement, time) ==
    /\ topPc = "active"
    /\ updates < MaxUpdates
    /\ \E r \in {refine(predict(time), measurement)} :
           m_xState' = r.x /\ m_pCovariance' = r.p
    /\ m_lastTimestamp' = time
    /\ updates' = updates + 1
    /\ predicted' = NoPrediction
    /\ UNCHANGED <<connVars, imuVars, historyVars, sideVars, lowVars, published, calVars, topVars, moreVars>>

\* readDataTask -> kalman.predict(timestamp, state).  The history keeps the
\* last two queries since the last update.
KalmanPredict(time) ==
    /\ topPc = "active"
    /\ \E r \in {predict(time)} :
           /\ predicted' = LastOf(Append(predicted, [time |-> time, x |-> r.x, p |-> r.p]), 2)
           /\ m_xState' = StateAfterPredict(m_xState, r.x)
           /\ m_pCovariance' = StateAfterPredict(m_pCovariance, r.p)
    /\ UNCHANGED <<m_lastTimestamp, updates>>
    /\ UNCHANGED <<connVars, imuVars, historyVars, sideVars, lowVars, published, calVars, topVars, moreVars>>

KalmanUpdates == \E z \in Measurements, t \in Times : KalmanUpdate(z, t)

KalmanPredicts == \E t \in Times : KalmanPredict(t)

----------------------------------------------------------------------------
(* Zero-offset calibration and the top-level state machine: state at boot *)

\* A side has processed no sample yet.
NoTorque == <<>>

\* Side::m_offsetSteps = 0, config.strain[].offset = DEFAULT_STRAIN_OFFSET.
CalBoot ==
    /\ m_offsetSteps = [s \in Sides |-> 0]
    /\ offset = [s \in Sides |-> DEFAULT_STRAIN_OFFSET]
    /\ steadyRaw = [s \in Sides |-> 0]
    /\ torque = [s \in Sides |-> NoTorque]
    /\ calibrated = [s \in Sides |-> FALSE]

\* runStateMachine("Top", &activeState) with
\* m_flatSuccessiveReadings = MINIMUM_BATTERY_SUCCESSIVE.
TopBoot ==
    /\ topState = "Active"
    /\ m_flatSuccessiveReadings = MINIMUM_BATTERY_SUCCESSIVE
    /\ lowRun = 0
    /\ wakeSources = {}


----------------------------------------------------------------------------
(* Configuration: the Config object and the preferences store *)

\* connection_mqtt.h: the largest batch the MQTT buffer can hold.
MQTT_FAST_BUFFER == 160

\* config.h: uint16_t mqttPacketSize = 50.
mqttPacketSizeDefault == 50

\* sizeof(*this) of the Config object, in bytes of the store.
ConfigSize == 8

\* The fields of the Config object the model keeps.
ConfigValue ==
    [connectionMethod |-> transport, imuHowOften |-> imuHowOften,
     mqttPacketSize |-> mqttPacketSize]

\* The member initialisers of config.h.
Defaults ==
    [connectionMethod |-> "MQTT", imuHowOften |-> 1,
     mqttPacketSize |-> mqttPacketSizeDefault]

\* prefs.isKey(CONF_KEY) is false.
NoKey == [type |-> "none"]

\* readJSON has not been called.
NoPayload == [payload |-> "none"]

\* prefs.putBytes(CONF_KEY, this, sizeof(*this)).
putBytes(cfg) == [type |-> "PT_BLOB", length |-> ConfigSize, bytes |-> cfg]

\* A fresh Config object over an empty store.
ConfBoot ==
    /\ mqttPacketSize = mqttPacketSizeDefault
    /\ prefs = NoKey
    /\ confPc = "boot"
    /\ prefsAtBoot = NoKey
    /\ confLast = NoPayload

\* No IMU sample has been processed.
ImuCountBoot == imuValid = 0 /\ imuOffered = 0 /\ imuDropped = 0

\* No segment has been closed and no averagePower read.
PowerBoot ==
    /\ segEnergy = [s \in Sides |-> FInt(0)]
    /\ lsEnergy = FInt(0)

\* m_angleToSector has not been called.
NoAngle == [k |-> "none"]

SectorBoot == angleIn = FInt(0) /\ sectorArg = NoAngle /\ sectorOut = 0

\* No predict-only query is in progress.
QueryBoot ==
    /\ predPc = "idle" /\ predTime = 0
    /\ predX = KALMAN_X0 /\ predP = KALMAN_P0
    /\ predCopyStamp = 0 /\ predUsedStamp = 0

\* The low-speed task is outside setLowSpeedData; no rotation has completed.
SnapBoot ==
    /\ snapStep = 0
    /\ rotationLog = <<[timestamp |-> 0, lastRotationDuration |-> 0]>>

\* No pure function has been applied.
NoResult == [k |-> "none"]

PureBoot ==
    /\ subState1 = KALMAN_X0 /\ subState2 = KALMAN_X0 /\ subResult = NoResult
    /\ scaleUs = <<0, 0>> /\ scaleTime = NoResult
    /\ blePower = 0 /\ m_measData = NoResult

\* The low-speed task has read no averagePower.
RendBoot == lsLeftRotation = 0 /\ lsRightRotation = 0

\* Neither enable() nor disable() has been called.
CallBoot == lastCall = "none" /\ calls = 0

AuxBoot == PureBoot /\ RendBoot /\ CallBoot

RestBoot ==
    ConfBoot /\ ImuCountBoot /\ PowerBoot /\ SectorBoot /\ QueryBoot /\ SnapBoot /\ AuxBoot
\* The measurement subsystem as the constructors leave it (imu.h, power_meter.h;
\* the Side objects are globals, so their plain members start at zero).

NoRecord == [rotationCount |-> 0, timestamp |-> 0, lastRotationDuration |-> 0,
             power |-> FInt(0), balance |-> FInt(0)]

PipelineBoot ==
    /\ rotations = 0 /\ m_lastRotationTime = 0 /\ m_lastRotationDuration = 0
    /\ m_armRotationCounter = FALSE /\ m_lastRotationSector = 0
    /\ m_sendCount = 0
    /\ window = <<>> /\ path = <<0>>
    /\ adcAlive \in [Sides -> BOOLEAN]
    /\ irqAttached = [s \in Sides |-> TRUE]
    /\ sideNotifyPending = [s \in Sides |-> FALSE]
    /\ sideNotifyValue = [s \in Sides |-> 0]
    /\ m_lastRotation = [s \in Sides |-> 0]
    /\ m_energy = [s \in Sides |-> FInt(0)]
    /\ m_lastTime = [s \in Sides |-> 0]
    /\ m_segStartTime = [s \in Sides |-> 0]
    /\ averagePower = [s \in Sides |-> FInt(0)]
    /\ lsNotifyValue = {} /\ lsNotifyPending = FALSE
    /\ lsPc = "wait" /\ lsSuccess = FALSE
    /\ lsLeft = FInt(0)
    /\ lsRecord = NoRecord
    /\ lsLastCount = 0
    /\ published = [n \in QueueNames |-> <<>>]

\* Everything as the constructors leave it.
MeasBoot == PipelineBoot /\ RestBoot /\ KalmanBoot /\ CalBoot /\ TopBoot /\ sleepTime = 0

\* The connection subsystem in a steady Active state of transport t.
ConnActive(t) ==
    /\ transport = t
    /\ connState = "Active" /\ connPc = "loop"
    /\ connNotifyValue = {} /\ connNotifyPending = FALSE
    /\ m_taskHandle = TRUE /\ m_connected = TRUE
    /\ wifiUp = (t = "MQTT") /\ mqttUp = (t = "MQTT")
    /\ bleCentral = (t = "BLE") /\ bleAdvertising = (t = "BLE")
    /\ queues = [n \in QueueNames |-> <<>>]
    /\ prodPc = [p \in Producers |-> "idle"]
    /\ observed = [p \in Producers |-> FALSE]
    /\ topPc = "active"

----------------------------------------------------------------------------
(* Specification of the rotation detector *)

\* BLE is connected (no IMU queue exists) and imuHowOften has its default.
InitRot ==
    /\ ConnActive("BLE")
    /\ MeasBoot
    /\ now = 0
    /\ adcAlive = [s \in Sides |-> TRUE]
    /\ imuHowOften = 1

NextRot ==
    \/ ClockAdvance
    \/ IMUTaskObserved

SpecRot == InitRot /\ [][NextRot]_vars

----------------------------------------------------------------------------
(* Side tasks: Side::readDataTask, processData, m_updateAveragePower *)

\* Values of velocity * torque a sample may yield.
PowerSamples == {0, 1}

\* The connection variables other than the queues, the IMU variables other
\* than the clock, and the low-speed task's own variables.
connCtl == <<transport, connState, connPc, connNotifyValue, connNotifyPending,
             m_taskHandle, m_connected, wifiUp, mqttUp, bleCentral, bleAdvertising,
             prodPc, observed, topPc>>

imuState == <<rotations, m_lastRotationTime, m_lastRotationDuration,
              m_armRotationCounter, m_lastRotationSector, m_sendCount, imuHowOften>>

lsLocals == <<lsPc, lsSuccess, lsLeft, lsRecord, lsLastCount>>

\* (2 << m_side)
SideBit(s) == IF s = "left" THEN 2 ELSE 4

BothSideBits == {SideBit(s) : s \in Sides}

\* irqAmp: the ADC's data-ready edge.  The interrupt detaches itself and
\* hands micros() to the side task with eSetValueWithOverwrite.
irqAmp(s) ==
    /\ topPc = "active"
    /\ adcAlive[s] /\ irqAttached[s]
    /\ irqAttached' = [irqAttached EXCEPT ![s] = FALSE]
    /\ sideNotifyValue' = [sideNotifyValue EXCEPT ![s] = now]
    /\ sideNotifyPending' = [sideNotifyPending EXCEPT ![s] = TRUE]
    /\ UNCHANGED <<adcAlive, m_lastRotation, m_energy, m_lastTime, m_segStartTime,
                   averagePower>>
    /\ UNCHANGED <<connVars, imuVars, historyVars, extVars, lowVars>>

\* processData: m_energy += velocity * torque * (timestamp - m_lastTime) * 1e-6
\* for each product the sample may yield.
Accumulated(energy, dt) ==
    {FAdd(energy, Fin(p * dt, TicksPerSecond)) : p \in PowerSamples}

\* m_updateAveragePower's test `rotations != m_lastRotation`.
RotationSeen(s) == rotations # m_lastRotation[s]

\* m_updateAveragePower(timestamp).  A side task is preempted only by the IMU
\* task, and the low-speed task runs only once the side task blocks again, so
\* the test and the body are one step.
m_updateAveragePower(s, timestamp) ==
    IF RotationSeen(s)
    THEN /\ m_lastRotation' = [m_lastRotation EXCEPT ![s] = rotations]
         /\ averagePower' = [averagePower EXCEPT ![s] =
                               FDiv(m_energy[s], FInt(TimeSub(timestamp, m_segStartTime[s])))]
         /\ m_segStartTime' = [m_segStartTime EXCEPT ![s] = timestamp]
         /\ lsNotifyValue' = lsNotifyValue \cup {SideBit(s)}
         /\ lsNotifyPending' = TRUE
    ELSE UNCHANGED <<m_lastRotation, averagePower, m_segStartTime, lsNotifyValue,
                     lsNotifyPending>>

\* m_energy as m_updateAveragePower leaves it.
EnergyAfterUpdate(s) == IF RotationSeen(s) THEN FInt(0) ELSE m_energy[s]

\* Timeout branch mutated: m_updateAveragePower is not called.
TimeoutUpdateSkipped(s, timestamp) ==
    UNCHANGED <<m_lastRotation, averagePower, m_segStartTime, lsNotifyValue, lsNotifyPending>>

\* readDataTask's timeout branch: m_updateAveragePower(micros()).
TimeoutUpdate(s, timestamp) == m_updateAveragePower(s, timestamp)

\* readDataTask, notification received (the value is the interrupt's time
\* and is cleared on exit): predict, read the ADC, re-attach the interrupt,
\* then processData: addHighSpeed, m_updateAveragePower, energy accumulation.
SideWakeStep(s) ==
    /\ Awake
    /\ sideNotifyPending[s]
    /\ m_offsetSteps[s] = 0
    /\ sideNotifyPending' = [sideNotifyPending EXCEPT ![s] = FALSE]
    /\ sideNotifyValue' = [sideNotifyValue EXCEPT ![s] = 0]
    /\ irqAttached' = [irqAttached EXCEPT ![s] = TRUE]
    /\ queues' = IF QueueLength(transport, s) > 0 /\ ShouldSend(m_connected)
                 THEN [queues EXCEPT ![s] =
                         xQueueSend(@, QueueLength(transport, s),
                                    [src |-> s, timestamp |-> sideNotifyValue[s]])]
                 ELSE queues
    /\ m_updateAveragePower(s, sideNotifyValue[s])
    /\ \E e \in Accumulated(EnergyAfterUpdate(s), TimeSub(sideNotifyValue[s], m_lastTime[s])) :
           m_energy' = [m_energy EXCEPT ![s] = e]
    /\ m_lastTime' = [m_lastTime EXCEPT ![s] = sideNotifyValue[s]]
    /\ UNCHANGED adcAlive
    /\ UNCHANGED <<connCtl, now, imuState, historyVars, lsLocals>>

SideWake(s) == SideWakeStep(s) /\ UNCHANGED extVars

\* readDataTask, 100 ms without a notification: re-attach the interrupt and
\* call m_updateAveragePower(micros()).
SideTimeoutStep(s) ==
    /\ Awake
    /\ ~sideNotifyPending[s]
    /\ irqAttached' = [irqAttached EXCEPT ![s] = TRUE]
    /\ TimeoutUpdate(s, now)
    /\ m_energy' = [m_energy EXCEPT ![s] =
                      IF m_lastRotation'[s] # m_lastRotation[s] THEN FInt(0) ELSE @]
    /\ UNCHANGED <<adcAlive, sideNotifyPending, sideNotifyValue, m_lastTime>>
    /\ UNCHANGED <<connVars, now, imuState, historyVars, lsLocals>>

SideTimeout(s) == SideTimeoutStep(s) /\ UNCHANGED extVars

ADCInterrupt == \E s \in Sides : irqAmp(s)

SideTaskWake == \E s \in Sides : SideWake(s)

SideTaskTimeout == \E s \in Sides : SideTimeout(s)

----------------------------------------------------------------------------
(* Low-speed task: waitLowSpeedNofity and taskLowSpeed *)

\* The low-speed task (priority 1) runs while the IMU and side tasks are
\* blocked.
LowRuns == Awake /\ HighPriorityIdle

\* Loop condition mutated: one side's bit is enough to leave the loop.
WaitAgainUntilAny(bits, success) == bits = {} /\ success

\* waitLowSpeedNofity: `while (notifyBits != both bits && success)`.
WaitAgain(bits, success) == bits # BothSideBits /\ success

\* IMUManager::setLowSpeedData: one critical section copies the three fields.
setLowSpeedData(data) ==
    [data EXCEPT !.lastRotationDuration = m_lastRotationDuration,
                 !.timestamp = m_lastRotationTime,
                 !.rotationCount = rotations]

\* Timeout branch mutated: the snapshot is not taken.
TimeoutSnapshotSkipped(data) == data

\* taskLowSpeed's else branch starts with setLowSpeedData as well.
TimeoutSnapshot(data) == setLowSpeedData(data)

\* Timeout branch mutated: the balance is left at zero.
TimeoutRecordZeroBalance(data) == [data EXCEPT !.balance = FInt(0), !.power = FInt(0)]

\* taskLowSpeed's else branch: lowSpeed.balance = 50; lowSpeed.power = 0.
TimeoutRecord(data) == [data EXCEPT !.balance = FInt(50), !.power = FInt(0)]

\* taskLowSpeed's then branch: power = left + right,
\* balance = 100 * right / power.
SuccessRecord(data, left, right) ==
    [data EXCEPT !.power = FAdd(left, right),
                 !.balance = FDiv(FMul(FInt(100), right), FAdd(left, right))]

\* The locals of the next iteration of taskLowSpeed's loop.
NextIteration ==
    /\ lsPc' = "wait"
    /\ lsSuccess' = FALSE
    /\ lsLeft' = FInt(0)
    /\ lsRecord' = NoRecord

\* xTaskNotifyWait(0, 0, &notifyBits, timeout) returns pdTRUE: a notification
\* was pending.  Nothing is cleared; the loop goes round unless both bits
\* are there.
LSWaitReturn ==
    /\ LowRuns
    /\ lsPc = "wait" /\ lsNotifyPending
    /\ lsNotifyPending' = FALSE
    /\ IF WaitAgain(lsNotifyValue, TRUE)
       THEN UNCHANGED <<lsPc, lsSuccess>>
       ELSE lsPc' = "clear" /\ lsSuccess' = TRUE
    /\ UNCHANGED <<lsNotifyValue, lsLeft, lsRecord, lsLastCount>>
    /\ UNCHANGED <<connVars, imuVars, historyVars, extVars, sideVars>>

\* xTaskNotifyWait times out (3 s): the value is copied out, the loop ends
\* and waitLowSpeedNofity returns false.
LSWaitTimeout ==
    /\ LowRuns
    /\ lsPc = "wait" /\ ~lsNotifyPending
    /\ lsSuccess' = FALSE
    /\ lsPc' = IF WaitAgain(lsNotifyValue, FALSE) THEN "wait" ELSE "tsnap"
    /\ UNCHANGED <<lsNotifyValue, lsNotifyPending, lsLeft, lsRecord, lsLastCount>>
    /\ UNCHANGED <<connVars, imuVars, historyVars, extVars, sideVars>>

\* ulTaskNotifyValueClear(lowSpeedTaskHandle, 0xffffffff): the value is
\* cleared, the notification state is not.
LSClear ==
    /\ LowRuns
    /\ lsPc = "clear"
    /\ lsNotifyValue' = {}
    /\ lsPc' = "snap"
    /\ UNCHANGED <<lsNotifyPending, lsSuccess, lsLeft, lsRecord, lsLastCount>>
    /\ UNCHANGED <<connVars, imuVars, historyVars, extVars, sideVars>>

LSSnapshot ==
    /\ LowRuns
    /\ lsPc = "snap"
    /\ lsRecord' = setLowSpeedData(lsRecord)
    /\ lsPc' = "left"
    /\ UNCHANGED <<lsNotifyValue, lsNotifyPending, lsSuccess, lsLeft, lsLastCount>>
    /\ UNCHANGED <<connVars, imuVars, historyVars, extVars, sideVars>>

\* float left = powerMeter.sides[SIDE_LEFT].averagePower;
LSReadLeftStep ==
    /\ LowRuns
    /\ lsPc = "left"
    /\ lsLeft' = averagePower["left"]
    /\ lsPc' = "right"
    /\ UNCHANGED <<lsNotifyValue, lsNotifyPending, lsSuccess, lsRecord, lsLastCount>>
    /\ UNCHANGED <<connVars, imuVars, historyVars, sideVars>>

LSReadLeft == LSReadLeftStep /\ UNCHANGED extVars

\* float right = ...averagePower; then power and balance.
LSReadRightStep ==
    /\ LowRuns
    /\ lsPc = "right"
    /\ lsRecord' = SuccessRecord(lsRecord, lsLeft, averagePower["right"])
    /\ lsLeft' = FInt(0)
    /\ lsPc' = "check"
    /\ UNCHANGED <<lsNotifyValue, lsNotifyPending, lsSuccess, lsLastCount>>
    /\ UNCHANGED <<connVars, imuVars, historyVars, sideVars>>

LSReadRight == LSReadRightStep /\ UNCHANGED extVars

LSTimeoutSnap ==
    /\ LowRuns
    /\ lsPc = "tsnap"
    /\ lsRecord' = TimeoutRecord(TimeoutSnapshot(lsRecord))
    /\ lsPc' = "check"
    /\ UNCHANGED <<lsNotifyValue, lsNotifyPending, lsSuccess, lsLeft, lsLastCount>>
    /\ UNCHANGED <<connVars, imuVars, historyVars, extVars, sideVars>>

\* addLowSpeed -> m_addToQueue: the accept-data flag is read ...
LSCheck ==
    /\ LowRuns
    /\ lsPc = "check"
    /\ IF ShouldSend(m_connected)
       THEN lsPc' = "send" /\ UNCHANGED <<lsSuccess, lsLeft, lsRecord>>
       ELSE NextIteration
    /\ UNCHANGED <<lsNotifyValue, lsNotifyPending, lsLastCount>>
    /\ UNCHANGED <<connVars, imuVars, historyVars, extVars, sideVars>>

\* ... and the record is sent with a zero timeout.  lsLastCount keeps the
\* rotation count of the last record that went into the queue.
LSSend ==
    /\ LowRuns
    /\ lsPc = "send"
    /\ queues' = [queues EXCEPT !["lowspeed"] = xQueueSend(@, LowSpeedLength, lsRecord)]
    /\ lsLastCount' = IF Len(queues["lowspeed"]) < LowSpeedLength
                      THEN lsRecord.rotationCount ELSE lsLastCount
    /\ NextIteration
    /\ UNCHANGED <<lsNotifyValue, lsNotifyPending>>
    /\ UNCHANGED <<connCtl, imuVars, historyVars, extVars, sideVars>>

----------------------------------------------------------------------------
(* Specification of the measurement pipeline under a steady connection *)

\* BLE is connected, so the low-speed and housekeeping queues exist and are
\* emptied by the Active loop; the left ADC is alive and the right one is
\* dead, so that both branches of readDataTask run.  The clock is not
\* followed: the tasks start after it has passed MaxTime, and every waiting
\* time is left open.
InitLow ==
    /\ ConnActive("BLE")
    /\ MeasBoot
    /\ adcAlive = [s \in Sides |-> s = "left"]
    /\ now = MaxTime
    /\ imuHowOften = 1

NextLow ==
    \/ IMUTask
    \/ ADCInterrupt
    \/ SideTaskWake
    \/ SideTaskTimeout
    \/ LSWaitReturn
    \/ LSWaitTimeout
    \/ LSClear
    \/ LSSnapshot
    \/ LSReadLeft
    \/ LSReadRight
    \/ LSTimeoutSnap
    \/ LSCheck
    \/ LSSend
    \/ BLEActiveLoop

SpecLow == InitLow /\ [][NextLow]_vars

----------------------------------------------------------------------------
(* Specification of the high-speed path: ADC interrupt, side task, queue, batch *)

HighSpeedQueues == {"left", "right", "imu"}

\* The payload m_handleSideQueue / m_handleIMUQueue fills: the records
\* received, in the order received.
BatchOf(q) == SubSeq(q, 1, BatchSize)

\* StateActive's loop reaches runActive.
ActiveRuns == ~NotificationResult(CONN_NOTIFY_DISABLE) /\ wifiUp /\ mqttUp

\* The Active loop together with what it publishes.
MQTTActiveLoopObserved ==
    /\ MQTTActiveStep
    /\ published' = [n \in QueueNames |->
                       IF n \in HighSpeedQueues /\ ActiveRuns /\ Len(queues[n]) >= BatchSize
                       THEN BatchOf(queues[n]) ELSE published[n]]
    /\ UNCHANGED <<kalmanVars, calVars, topVars, moreVars>>

\* readDataTask: the data-ready edge arrives after xTaskNotifyWait has timed
\* out and before the timeout branch attaches the interrupt again.  irqAmp
\* detaches and notifies; the branch then attaches and calls
\* m_updateAveragePower(micros()), so the interrupt is armed while a
\* notification is pending.
SideTimeoutLate(s) ==
    /\ topPc = "active"
    /\ adcAlive[s] /\ irqAttached[s]
    /\ ~sideNotifyPending[s]
    /\ sideNotifyValue' = [sideNotifyValue EXCEPT ![s] = now]
    /\ sideNotifyPending' = [sideNotifyPending EXCEPT ![s] = TRUE]
    /\ TimeoutUpdate(s, now)
    /\ m_energy' = [m_energy EXCEPT ![s] =
                      IF m_lastRotation'[s] # m_lastRotation[s] THEN FInt(0) ELSE @]
    /\ UNCHANGED <<adcAlive, irqAttached, m_lastTime>>
    /\ UNCHANGED <<connVars, now, imuState, historyVars, extVars, lsLocals>>

SideTaskTimeoutLate == \E s \in Sides : SideTimeoutLate(s)

\* MQTT is connected, so every queue exists.  The run is taken up one tick
\* before the 32-bit microsecond counter wraps; no ADC has raised its
\* interrupt until then.  The left ADC is alive and the right one is dead;
\* the IMU is left out, its queue goes through the same runActive.
InitHigh ==
    /\ ConnActive("MQTT")
    /\ MeasBoot
    /\ adcAlive = [s \in Sides |-> s = "left"]
    /\ now = TimerModulus - 1
    /\ imuHowOften = 1

NextHigh ==
    \/ ClockAdvance
    \/ ADCInterrupt
    \/ SideTaskWake
    \/ SideTaskTimeout
    \/ SideTaskTimeoutLate
    \/ MQTTActiveLoopObserved

SpecHigh == InitHigh /\ [][NextHigh]_vars

----------------------------------------------------------------------------
(* Specification of the Kalman filter as a function of its inputs *)

\* The filter holds any of the stored states, last updated just after boot
\* or just before the clock wraps; nothing else runs.
InitKalman ==
    /\ ConnActive("BLE")
    /\ PipelineBoot /\ RestBoot /\ CalBoot /\ TopBoot /\ sleepTime = 0
    /\ adcAlive = [s \in Sides |-> TRUE]
    /\ now = 0
    /\ imuHowOften = 1
    /\ m_xState \in StoredStates
    /\ m_pCovariance = KALMAN_P0
    /\ m_lastTimestamp \in {0, TimerModulus - 1}
    /\ updates = 0
    /\ predicted = NoPrediction

NextKalman == KalmanUpdates \/ KalmanPredicts

SpecKalman == InitKalman /\ [][NextKalman]_vars

----------------------------------------------------------------------------
(* Specification of zero-offset calibration *)

\* 24-bit readings of the ADC with the crank at rest: multiples of
\* OFFSET_COMPENSATION_SAMPLES and values in between.
RawValues == {0, 199, 200, 9848390, 9848400, 16777215}

\* Side::m_calculateTorque with tempCoefficient = 0: the difference is an
\* int32_t, the product a float.  raw and offset stay below 2^25 here, so
\* neither the subtraction nor the conversion rounds.
m_calculateTorque(raw, off, coefficient) ==
    FMul(FMul(FInt(raw - off), coefficient), FSub(FInt(1), FMul(FInt(0), FInt(1))))

\* PowerMeter::offsetCompensate: enableStrainOffsetCalibration on both sides.
OffsetCompensate ==
    /\ topPc = "active"
    /\ m_offsetSteps' = [s \in Sides |-> OFFSET_COMPENSATION_SAMPLES]
    /\ offset' = [s \in Sides |-> 0]
    /\ calibrated' = [s \in Sides |-> TRUE]
    /\ torque' = [s \in Sides |-> NoTorque]
    /\ UNCHANGED <<steadyRaw, published, kalmanVars, topVars, moreVars>>
    /\ UNCHANGED <<connVars, imuVars, historyVars, sideVars, lowVars>>

\* Countdown mutated: a sample leaves m_offsetSteps as it is.
StepsAfterSampleStuck(steps) == steps

\* m_offsetSteps--
StepsAfterSample(steps) == steps - 1

\* readDataTask, notification received while m_offsetSteps # 0: the reading
\* goes into the offset (uint32_t += uint32_t / 200) and
\* m_updateAveragePower runs; nothing is enqueued.
SideWakeCalibrate(s) ==
    /\ Awake
    /\ sideNotifyPending[s]
    /\ m_offsetSteps[s] # 0
    /\ sideNotifyPending' = [sideNotifyPending EXCEPT ![s] = FALSE]
    /\ sideNotifyValue' = [sideNotifyValue EXCEPT ![s] = 0]
    /\ irqAttached' = [irqAttached EXCEPT ![s] = TRUE]
    /\ offset' = [offset EXCEPT ![s] = @ + steadyRaw[s] \div OFFSET_COMPENSATION_SAMPLES]
    /\ m_offsetSteps' = [m_offsetSteps EXCEPT ![s] = StepsAfterSample(@)]
    /\ m_updateAveragePower(s, sideNotifyValue[s])
    /\ m_energy' = [m_energy EXCEPT ![s] = EnergyAfterUpdate(s)]
    /\ UNCHANGED <<adcAlive, m_lastTime, queues>>
    /\ UNCHANGED <<steadyRaw, torque, calibrated, published, kalmanVars, topVars, moreVars>>
    /\ UNCHANGED <<connCtl, now, imuState, historyVars, lsLocals>>

\* readDataTask, notification received with m_offsetSteps = 0: processData,
\* observed with the torque it computes (coefficient 1).
SideWakeObserved(s) ==
    /\ SideWakeStep(s)
    /\ torque' = [torque EXCEPT ![s] = m_calculateTorque(steadyRaw[s], offset[s], FInt(1))]
    /\ UNCHANGED <<m_offsetSteps, offset, steadyRaw, calibrated, published, kalmanVars, topVars, moreVars>>

SideTaskCalibrate == \E s \in Sides : SideWakeCalibrate(s)

SideTaskObserved == \E s \in Sides : SideWakeObserved(s)

\* The crank is at rest and the left ADC reads one of the raw values
\* steadily; BLE is connected.
InitCal ==
    /\ ConnActive("BLE")
    /\ PipelineBoot /\ RestBoot /\ KalmanBoot /\ TopBoot /\ sleepTime = 0
    /\ adcAlive = [s \in Sides |-> s = "left"]
    /\ now = 0
    /\ imuHowOften = 1
    /\ m_offsetSteps = [s \in Sides |-> 0]
    /\ offset = [s \in Sides |-> DEFAULT_STRAIN_OFFSET]
    /\ steadyRaw \in [Sides -> RawValues]
    /\ steadyRaw["right"] = 0
    /\ torque = [s \in Sides |-> NoTorque]
    /\ calibrated = [s \in Sides |-> FALSE]

NextCal ==
    \/ OffsetCompensate
    \/ ADCInterrupt
    \/ SideTaskCalibrate
    \/ SideTaskObserved

SpecCal == InitCal /\ [][NextCal]_vars

----------------------------------------------------------------------------
(* Configuration: load, save and readJSON *)

\* Config::load without the length test.
loadAnyLength(stored, cfg) ==
    IF stored # NoKey /\ stored.type = "PT_BLOB"
    THEN [config |-> stored.bytes, prefs |-> stored]
    ELSE [config |-> cfg, prefs |-> putBytes(cfg)]

\* Config::load: the stored bytes are taken only when the key exists, is a blob
\* and has the length of the Config object; otherwise the key is removed if it
\* exists and the object is saved as it is.
load(stored, cfg) ==
    IF /\ stored # NoKey
       /\ stored.type = "PT_BLOB"
       /\ stored.length = ConfigSize
    THEN [config |-> stored.bytes, prefs |-> stored]
    ELSE [config |-> cfg, prefs |-> putBytes(cfg)]

\* EnumConnection: CONNECTION_MQTT = 0, CONNECTION_BLE = 1.
ConnectionOf(c) == IF c = 0 THEN "MQTT" ELSE "BLE"

\* A text deserializeJson fails on.
Unparseable == [json |-> FALSE]

\* The documents the model sends: "connection", "imuHowOften" and "mqtt.length".
Documents ==
    [json : {TRUE}, connection : {0, 1, 2}, imuHowOften : {1, 2},
     length : {mqttPacketSizeDefault, MQTT_FAST_BUFFER, MQTT_FAST_BUFFER + 1}]

Payloads == {Unparseable} \cup Documents

\* Config::readJSON without the test of the proposed batch length.
readJSONAnyLength(cfg, text) ==
    IF ~text.json
    THEN [ok |-> FALSE, config |-> cfg]
    ELSE [ok |-> TRUE,
          config |->
            [connectionMethod |->
                 IF text.connection \in {0, 1}
                 THEN ConnectionOf(text.connection)
                 ELSE cfg.connectionMethod,
             imuHowOften |-> text.imuHowOften,
             mqttPacketSize |-> text.length]]

\* Config::readJSON: false and nothing assigned when the text does not parse;
\* otherwise the fields are assigned one after the other, the connection method
\* only when it is a known one and the batch length only when it fits the
\* buffer, and the result is true.
readJSON(cfg, text) ==
    IF ~text.json
    THEN [ok |-> FALSE, config |-> cfg]
    ELSE [ok |-> TRUE,
          config |->
            [connectionMethod |->
                 IF text.connection \in {0, 1}
                 THEN ConnectionOf(text.connection)
                 ELSE cfg.connectionMethod,
             imuHowOften |-> text.imuHowOften,
             mqttPacketSize |->
                 IF text.length <= MQTT_FAST_BUFFER
                 THEN text.length
                 ELSE cfg.mqttPacketSize]]

\* What a configuration action leaves alone.
confFrame ==
    <<connState, connPc, connNotifyValue, connNotifyPending, m_taskHandle,
      m_connected, wifiUp, mqttUp, bleCentral, bleAdvertising, queues, prodPc,
      observed, topPc, now, rotations, m_lastRotationTime,
      m_lastRotationDuration, m_armRotationCounter, m_lastRotationSector,
      m_sendCount, historyVars, sideVars, lowVars, published, kalmanVars,
      calVars, topVars, imuCountVars, powerVars, sectorVars, queryVars,
      snapVars, auxVars>>

\* The Config object becomes cfg.
ConfigBecomes(cfg) ==
    /\ transport' = cfg.connectionMethod
    /\ imuHowOften' = cfg.imuHowOften
    /\ mqttPacketSize' = cfg.mqttPacketSize

\* setup(): config.load().
ConfigLoad ==
    /\ confPc = "boot"
    /\ confPc' = "run"
    /\ \E r \in {load(prefs, ConfigValue)} :
          /\ ConfigBecomes(r.config)
          /\ prefs' = r.prefs
    /\ UNCHANGED <<prefsAtBoot, confLast, confFrame>>

\* mqttUpdateConf: readJSON, print, save, whatever readJSON returned.
MqttUpdateConf(text) ==
    /\ confPc = "run"
    /\ transport = "MQTT"
    /\ \E r \in {readJSON(ConfigValue, text)} :
          /\ ConfigBecomes(r.config)
          /\ prefs' = putBytes(r.config)
    /\ confLast' = [payload |-> text, before |-> ConfigValue]
    /\ UNCHANGED <<confPc, prefsAtBoot, confFrame>>

\* Config::serialRead: save only when readJSON returned true.
SerialRead(text) ==
    /\ confPc = "run"
    /\ \E r \in {readJSON(ConfigValue, text)} :
          /\ ConfigBecomes(r.config)
          /\ prefs' = IF r.ok THEN putBytes(r.config) ELSE prefs
    /\ confLast' = [payload |-> text, before |-> ConfigValue]
    /\ UNCHANGED <<confPc, prefsAtBoot, confFrame>>

MqttConfigMessage == \E text \in Payloads : MqttUpdateConf(text)

SerialConfigCommand == \E text \in Payloads : SerialRead(text)

\* What the store can hold when the MCU starts: nothing, or an entry of either
\* type whose length is that of this build's Config object or of another one.
StoredConfigs ==
    {Defaults,
     [connectionMethod |-> "BLE", imuHowOften |-> 2,
      mqttPacketSize |-> MQTT_FAST_BUFFER]}

BootStores ==
    {NoKey} \cup
    [type : {"PT_BLOB", "PT_STR"},
     length : {ConfigSize - 1, ConfigSize, ConfigSize + 1},
     bytes : StoredConfigs]

InitConfig ==
    /\ connState = "NotStarted" /\ connPc = "enter"
    /\ connNotifyValue = {} /\ connNotifyPending = FALSE
    /\ m_taskHandle = FALSE /\ m_connected = FALSE
    /\ wifiUp = FALSE /\ mqttUp = FALSE
    /\ bleCentral = FALSE /\ bleAdvertising = FALSE
    /\ queues = [n \in QueueNames |-> <<>>]
    /\ prodPc = [p \in Producers |-> "idle"]
    /\ observed = [p \in Producers |-> FALSE]
    /\ topPc = "setup"
    /\ PipelineBoot /\ KalmanBoot /\ CalBoot /\ TopBoot /\ sleepTime = 0
    /\ now = 0
    /\ adcAlive = [s \in Sides |-> TRUE]
    /\ transport = Defaults.connectionMethod
    /\ imuHowOften = Defaults.imuHowOften
    /\ mqttPacketSize = Defaults.mqttPacketSize
    /\ prefs \in BootStores
    /\ prefsAtBoot = prefs
    /\ confPc = "boot"
    /\ confLast = NoPayload
    /\ ImuCountBoot /\ PowerBoot /\ SectorBoot /\ QueryBoot /\ SnapBoot /\ AuxBoot

NextConfig == ConfigLoad \/ MqttConfigMessage \/ SerialConfigCommand

SpecConfig == InitConfig /\ [][NextConfig]_vars

----------------------------------------------------------------------------
(* IMU record decimation *)

\* The largest decimation factor tried.
MaxDecimation == 3

\* The valid samples followed: two full periods of the largest factor and one more.
MaxSamples == 2 * MaxDecimation + 1

\* processIMUEvent's test "m_sendCount >= config.imuHowOften" before the
\* sample is counted: the sample is handed to addIMU.
OffersRecord == m_sendCount >= imuHowOften

\* The IMU task's step together with the count of valid samples and of the
\* records handed to addIMU.
IMUTaskCounted ==
    \E s \in Samples :
        /\ imuValid < MaxSamples
        /\ IMUSampleStep(s)
        /\ imuValid' = IF s.valid THEN imuValid + 1 ELSE imuValid
        /\ imuOffered' = IF s.valid /\ OffersRecord THEN imuOffered + 1 ELSE imuOffered
        /\ UNCHANGED <<historyVars, published, kalmanVars, calVars, topVars, confVars,
                       powerVars, sectorVars, queryVars, snapVars, auxVars, imuDropped>>

InitImu ==
    /\ ConnActive("MQTT")
    /\ MeasBoot
    /\ now = 0
    /\ adcAlive = [s \in Sides |-> TRUE]
    /\ imuHowOften \in 1..MaxDecimation

NextImu ==
    \/ ClockAdvance
    \/ IMUTaskCounted
    \/ MQTTActiveLoop

SpecImu == InitImu /\ [][NextImu]_vars

----------------------------------------------------------------------------
(* Reported power and the energy behind it *)

\* What the power history leaves alone.
powerFrame ==
    <<published, kalmanVars, calVars, topVars, confVars, imuCountVars, sectorVars,
      queryVars, snapVars, auxVars>>

\* The energy m_updateAveragePower divides when it sets the side's averagePower.
SegEnergyAfter(s) ==
    IF RotationSeen(s) THEN [segEnergy EXCEPT ![s] = m_energy[s]] ELSE segEnergy

\* The side task's two branches, with the energy behind averagePower.
SideWakePower(s) ==
    /\ SideWakeStep(s)
    /\ segEnergy' = SegEnergyAfter(s)
    /\ UNCHANGED <<lsEnergy, powerFrame>>

SideTimeoutPower(s) ==
    /\ SideTimeoutStep(s)
    /\ segEnergy' = SegEnergyAfter(s)
    /\ UNCHANGED <<lsEnergy, powerFrame>>

SideTaskPower == \E s \in Sides : SideWakePower(s) \/ SideTimeoutPower(s)

\* taskLowSpeed's two reads of averagePower, with the energy behind each.
LSReadLeftPower ==
    /\ LSReadLeftStep
    /\ lsEnergy' = segEnergy["left"]
    /\ UNCHANGED <<segEnergy, powerFrame>>

LSReadRightPower ==
    /\ LSReadRightStep
    /\ lsEnergy' = FAdd(lsEnergy, segEnergy["right"])
    /\ UNCHANGED <<segEnergy, powerFrame>>

\* The left ADC delivers samples and the right side runs on its timeout, BLE
\* is connected and the clock runs from 0.
InitPower ==
    /\ ConnActive("BLE")
    /\ MeasBoot
    /\ adcAlive = [s \in Sides |-> s = "left"]
    /\ now = 0
    /\ imuHowOften = 1

NextPower ==
    \/ ClockAdvance
    \/ IMUTask
    \/ ADCInterrupt
    \/ SideTaskPower
    \/ LSWaitReturn
    \/ LSWaitTimeout
    \/ LSClear
    \/ LSSnapshot
    \/ LSReadLeftPower
    \/ LSReadRightPower
    \/ LSTimeoutSnap
    \/ LSCheck
    \/ LSSend
    \/ BLEActiveLoop

SpecPower == InitPower /\ [][NextPower]_vars

----------------------------------------------------------------------------
(* The sector classifier on its own *)

\* Angles are tried in steps of pi / (3 * AngleSteps).
AngleSteps == 4

\* pi in those steps.
MaxAngle == 3 * AngleSteps

\* The angles from -pi to pi, both sector edges and their neighbours among them.
ClassifierAngles == {Fin(n, AngleSteps) : n \in -MaxAngle .. MaxAngle}

\* m_angleToSector(angleIn), and the next argument.
ClassifyAngle ==
    /\ sectorArg' = angleIn
    /\ sectorOut' = m_angleToSector(angleIn)
    /\ angleIn' \in ClassifierAngles
    /\ UNCHANGED <<connVars, imuVars, historyVars, sideVars, lowVars, published,
                   kalmanVars, calVars, topVars, confVars, imuCountVars, powerVars,
                   queryVars, snapVars, auxVars>>

InitSector ==
    /\ ConnActive("BLE")
    /\ PipelineBoot /\ KalmanBoot /\ CalBoot /\ TopBoot /\ sleepTime = 0
    /\ ConfBoot /\ ImuCountBoot /\ PowerBoot /\ QueryBoot /\ SnapBoot /\ AuxBoot
    /\ adcAlive = [s \in Sides |-> TRUE]
    /\ now = 0
    /\ imuHowOften = 1
    /\ angleIn \in ClassifierAngles
    /\ sectorArg = NoAngle
    /\ sectorOut = 0

NextSector == ClassifyAngle

SpecSector == InitSector /\ [][NextSector]_vars

----------------------------------------------------------------------------
(* A predict-only query of the side task, step by step *)

\* What a step of the query leaves alone.
queryFrame ==
    <<connVars, imuVars, historyVars, sideVars, lowVars, published, kalmanVars,
      calVars, topVars, confVars, imuCountVars, powerVars, sectorVars, snapVars, auxVars>>

\* predict, first part: inside TAKE_KALMAN_PROTECT / GIVE_KALMAN_PROTECT the
\* stored state and covariance are copied into the caller's matrices.
PredictCopy(time) ==
    /\ topPc = "active"
    /\ predPc \in {"idle", "done"}
    /\ predTime' = time
    /\ predX' = m_xState
    /\ predP' = m_pCovariance
    /\ predCopyStamp' = m_lastTimestamp
    /\ predPc' = "copied"
    /\ UNCHANGED <<predUsedStamp, queryFrame>>

\* predict, second part: outside the critical section m_lastTimestamp is read
\* for the time step and the prediction is computed on the copies.
PredictCompute ==
    /\ topPc = "active"
    /\ predPc = "copied"
    /\ \E r \in {predictStep(predX, predP, timestep(predTime, m_lastTimestamp))} :
           predX' = r.x /\ predP' = r.p
    /\ predUsedStamp' = m_lastTimestamp
    /\ predPc' = "done"
    /\ UNCHANGED <<predTime, predCopyStamp, queryFrame>>

PredictCopies == \E t \in Times : PredictCopy(t)

\* The IMU task has the higher priority: a whole update can run between any
\* two steps of the side task's query.
NextQuery == KalmanUpdates \/ PredictCopies \/ PredictCompute

SpecQuery == InitKalman /\ [][NextQuery]_vars

----------------------------------------------------------------------------
(* Rotation metadata: publisher and consumer, step by step *)

\* Critical section mutated: setLowSpeedData copies without taking the spinlock.
InCriticalNever(step) == FALSE

\* The low-speed task is between taskENTER_CRITICAL and taskEXIT_CRITICAL of
\* setLowSpeedData: interrupts are off and no other task runs on the core.
InCritical(step) == step > 0

\* What the steps of setLowSpeedData leave alone.
snapFrame ==
    <<connVars, imuVars, historyVars, sideVars, lsNotifyValue, lsNotifyPending,
      lsSuccess, lsLeft, lsLastCount, published, kalmanVars, calVars, topVars,
      confVars, imuCountVars, powerVars, sectorVars, queryVars, rotationLog, auxVars>>

\* taskENTER_CRITICAL(&spinlock) in setLowSpeedData, on either branch of
\* taskLowSpeed.
SnapEnter ==
    /\ LowRuns
    /\ lsPc \in {"snap", "tsnap"}
    /\ snapStep = 0
    /\ snapStep' = 1
    /\ UNCHANGED <<lsPc, lsRecord, snapFrame>>

\* data.lastRotationDuration = m_lastRotationDuration
SnapCopyDuration ==
    /\ snapStep = 1
    /\ lsRecord' = [lsRecord EXCEPT !.lastRotationDuration = m_lastRotationDuration]
    /\ snapStep' = 2
    /\ UNCHANGED <<lsPc, snapFrame>>

\* data.timestamp = m_lastRotationTime
SnapCopyTime ==
    /\ snapStep = 2
    /\ lsRecord' = [lsRecord EXCEPT !.timestamp = m_lastRotationTime]
    /\ snapStep' = 3
    /\ UNCHANGED <<lsPc, snapFrame>>

\* data.rotationCount = rotations; taskEXIT_CRITICAL; on the timeout branch
\* the balance and the power are then set.
SnapCopyCount ==
    /\ snapStep = 3
    /\ \E r \in {[lsRecord EXCEPT !.rotationCount = rotations]} :
           lsRecord' = IF lsPc = "snap" THEN r ELSE TimeoutRecord(r)
    /\ lsPc' = IF lsPc = "snap" THEN "left" ELSE "check"
    /\ snapStep' = 0
    /\ UNCHANGED snapFrame

\* processIMUEvent with the log of the rotation events: the three members
\* change together inside taskENTER_CRITICAL / taskEXIT_CRITICAL.
IMUTaskLogged ==
    \E s \in Samples :
        /\ IMUSampleStep(s)
        /\ rotationLog' =
               IF rotations' # rotations
               THEN Append(rotationLog,
                           [timestamp |-> m_lastRotationTime',
                            lastRotationDuration |-> m_lastRotationDuration'])
               ELSE rotationLog
        /\ UNCHANGED <<historyVars, published, kalmanVars, calVars, topVars, confVars,
                       imuCountVars, powerVars, sectorVars, queryVars, snapStep, auxVars>>

\* Everything that runs only while the low-speed task is outside its
\* critical section.
OutsideCritical ==
    \/ IMUTaskLogged
    \/ ADCInterrupt
    \/ SideTaskWake
    \/ SideTaskTimeout
    \/ LSWaitReturn
    \/ LSWaitTimeout
    \/ LSClear
    \/ SnapEnter
    \/ LSReadLeft
    \/ LSReadRight
    \/ LSCheck
    \/ LSSend
    \/ BLEActiveLoop

NextSnap ==
    \/ ~InCritical(snapStep) /\ OutsideCritical
    \/ SnapCopyDuration
    \/ SnapCopyTime
    \/ SnapCopyCount

SpecSnap == InitLow /\ [][NextSnap]_vars

----------------------------------------------------------------------------
(* Zero-offset calibration while records are being published *)

\* MQTT is connected, so the side queues exist; the left ADC reads
\* OFFSET_COMPENSATION_SAMPLES steadily, so that every calibration sample
\* adds 1 to the offset; the crank turns.
InitCalHigh ==
    /\ ConnActive("MQTT")
    /\ PipelineBoot /\ RestBoot /\ KalmanBoot /\ TopBoot /\ sleepTime = 0
    /\ adcAlive = [s \in Sides |-> s = "left"]
    /\ now = 0
    /\ imuHowOften = 1
    /\ m_offsetSteps = [s \in Sides |-> 0]
    /\ offset = [s \in Sides |-> DEFAULT_STRAIN_OFFSET]
    /\ steadyRaw = [s \in Sides |-> IF s = "left" THEN OFFSET_COMPENSATION_SAMPLES ELSE 0]
    /\ torque = [s \in Sides |-> NoTorque]
    /\ calibrated = [s \in Sides |-> FALSE]

NextCalHigh ==
    \/ OffsetCompensate
    \/ IMUTask
    \/ ADCInterrupt
    \/ SideTaskCalibrate
    \/ SideTaskObserved
    \/ MQTTActiveLoop

SpecCalHigh == InitCalHigh /\ [][NextCalHigh]_vars
----------------------------------------------------------------------------
(* The IMU event with its validity flags and the filter update *)

\* This many samples with an invalid flag are handed over.
MaxDropped == 2

\* Validity test mutated: only the accelerometer flag is looked at.
DataValidAccelOnly(accel, gyro) == accel

\* processIMUEvent: imu.isAccelDataValid(evt) && imu.isGyroDataValid(evt).
DataValid(accel, gyro) == accel /\ gyro

\* What the event history leaves alone.
eventFrame ==
    <<published, calVars, topVars, confVars, powerVars, sectorVars, queryVars, snapVars, auxVars,
      imuValid, imuOffered>>

\* processIMUEvent on an event with the given validity flags and the
\* measurement z: a valid event updates the filter at the interrupt's time
\* and the detector sees the updated position estimate.
IMUEvent(accel, gyro, z) ==
    /\ IF DataValid(accel, gyro) THEN updates < MaxUpdates ELSE TRUE
    /\ (accel /\ gyro) \/ imuDropped < MaxDropped
    /\ \E r \in {IF DataValid(accel, gyro) THEN refine(predict(now), z)
                 ELSE [x |-> m_xState, p |-> m_pCovariance]} :
           /\ IMUSampleStep([valid |-> DataValid(accel, gyro), angle |-> r.x[1]])
           /\ m_xState' = r.x
           /\ m_pCovariance' = r.p
    /\ m_lastTimestamp' = IF DataValid(accel, gyro) THEN now ELSE m_lastTimestamp
    /\ updates' = IF DataValid(accel, gyro) THEN updates + 1 ELSE updates
    /\ imuDropped' = IF accel /\ gyro THEN imuDropped ELSE imuDropped + 1
    /\ UNCHANGED <<predicted, historyVars, eventFrame>>

IMUEvents == \E accel \in BOOLEAN, gyro \in BOOLEAN, z \in Measurements : IMUEvent(accel, gyro, z)

\* config.imuHowOften is any configured value from 0, with which every
\* valid sample is offered to the IMU queue.
InitEvent ==
    /\ ConnActive("MQTT")
    /\ MeasBoot
    /\ now = 0
    /\ adcAlive = [s \in Sides |-> TRUE]
    /\ imuHowOften \in 0..MaxDecimation

NextEvent ==
    \/ ClockAdvance
    \/ IMUEvents
    \/ MQTTActiveLoop

SpecEvent == InitEvent /\ [][NextEvent]_vars

\* config.imuHowOften (int8_t) has the value documented to disable the
\* sending of IMU data.  In m_sendCount >= config.imuHowOften both operands
\* are promoted to int, so the comparison is one of integers.
InitImuOff ==
    /\ ConnActive("MQTT")
    /\ MeasBoot
    /\ now = 0
    /\ adcAlive = [s \in Sides |-> TRUE]
    /\ imuHowOften = -1

SpecImuOff == InitImuOff /\ [][NextImu]_vars

----------------------------------------------------------------------------
(* The side task's query against the interrupt times *)

\* readDataTask on a notification: kalman.predict(timestamp, state) with the
\* time the ADC interrupt put into the notification, then the rest of the
\* branch.  The history keeps that time and the m_lastTimestamp the time
\* step was taken from.
SideWakeQuery(s) ==
    /\ SideWakeStep(s)
    /\ predTime' = sideNotifyValue[s]
    /\ predCopyStamp' = m_lastTimestamp
    /\ predUsedStamp' = m_lastTimestamp
    /\ \E r \in {predict(sideNotifyValue[s])} : predX' = r.x /\ predP' = r.p
    /\ predPc' = "done"
    /\ UNCHANGED <<published, kalmanVars, calVars, topVars, confVars, imuCountVars,
                   powerVars, sectorVars, snapVars, auxVars>>

SideTaskQuery == \E s \in Sides : SideWakeQuery(s)

\* MQTT is connected, the crank is at rest and the left ADC delivers samples.
InitStamp ==
    /\ ConnActive("MQTT")
    /\ MeasBoot
    /\ now = 0
    /\ adcAlive = [s \in Sides |-> s = "left"]
    /\ imuHowOften = 1

\* The IMU task has the highest priority: its event runs to the end at the
\* time of its interrupt, also between an ADC interrupt and the side task's
\* wake-up.
NextStamp ==
    \/ ClockAdvance
    \/ ADCInterrupt
    \/ IMUEvents
    \/ SideTaskQuery
    \/ MQTTActiveLoop

SpecStamp == InitStamp /\ [][NextStamp]_vars

----------------------------------------------------------------------------
(* The rotations behind the powers of a rendezvous *)

\* What the rendezvous history leaves alone.
rendFrame ==
    <<published, kalmanVars, calVars, topVars, confVars, imuCountVars, powerVars,
      sectorVars, queryVars, snapVars, pureVars, callVars>>

\* The samples the IMU hands over while the crank completes one rotation
\* more than MaxRot.
FurtherSamples ==
    {s \in [valid : BOOLEAN, angle : Angles] :
        rotations = MaxRot + 1 =>
            m_angleToSector(s.angle) # 0 \/ m_lastRotationSector # 2}

IMUTaskFurther == \E s \in FurtherSamples : IMUTakeSample(s) /\ UNCHANGED historyVars

\* taskLowSpeed's two reads of averagePower, with the rotation each side's
\* m_updateAveragePower had last seen (it sets both in the same call).
LSReadLeftRotation ==
    /\ LSReadLeftStep
    /\ lsLeftRotation' = m_lastRotation["left"]
    /\ UNCHANGED <<lsRightRotation, rendFrame>>

LSReadRightRotation ==
    /\ LSReadRightStep
    /\ lsRightRotation' = m_lastRotation["right"]
    /\ UNCHANGED <<lsLeftRotation, rendFrame>>

NextRendezvous ==
    \/ IMUTaskFurther
    \/ ADCInterrupt
    \/ SideTaskWake
    \/ SideTaskTimeout
    \/ LSWaitReturn
    \/ LSWaitTimeout
    \/ LSClear
    \/ LSSnapshot
    \/ LSReadLeftRotation
    \/ LSReadRightRotation
    \/ LSTimeoutSnap
    \/ LSCheck
    \/ LSSend
    \/ BLEActiveLoop

SpecRendezvous == InitLow /\ [][NextRendezvous]_vars

----------------------------------------------------------------------------
(* Pure functions on their own: subtractStates, m_scaleTime1024, m_measData *)

\* What the calls of the pure functions leave alone.
pureFrame ==
    <<connVars, imuVars, historyVars, sideVars, lowVars, published, kalmanVars, calVars,
      topVars, confVars, imuCountVars, powerVars, sectorVars, queryVars, snapVars,
      rendVars, callVars>>

\* The rest of the firmware as it is after setup, BLE connected.
PureBase ==
    /\ ConnActive("BLE")
    /\ PipelineBoot /\ KalmanBoot /\ CalBoot /\ TopBoot /\ sleepTime = 0
    /\ ConfBoot /\ ImuCountBoot /\ PowerBoot /\ SectorBoot /\ QueryBoot /\ SnapBoot
    /\ RendBoot /\ CallBoot
    /\ adcAlive = [s \in Sides |-> TRUE]
    /\ now = 0
    /\ imuHowOften = 1

\* The angles of (-pi, pi] in steps of pi / (3 * AngleSteps), with the
\* velocity of a crank that turns.
ArcStates == {<<Fin(n, AngleSteps), FInt(1)>> : n \in (1 - MaxAngle) .. MaxAngle}

\* subtractStates(subState1, subState2).
SubtractCall ==
    /\ subResult = NoResult
    /\ subResult' = subtractStates(subState1, subState2)
    /\ UNCHANGED <<subState1, subState2, scaleUs, scaleTime, blePower, m_measData>>
    /\ UNCHANGED pureFrame

\* The caller goes on to its next pair of states.
SubtractNext ==
    /\ subResult # NoResult
    /\ subState1' \in ArcStates
    /\ subState2' \in ArcStates
    /\ subResult' = NoResult
    /\ UNCHANGED <<scaleUs, scaleTime, blePower, m_measData>>
    /\ UNCHANGED pureFrame

InitSubtract ==
    /\ PureBase
    /\ subState1 \in ArcStates
    /\ subState2 \in ArcStates
    /\ subResult = NoResult
    /\ scaleUs = <<0, 0>> /\ scaleTime = NoResult
    /\ blePower = 0 /\ m_measData = NoResult

NextSubtract == SubtractCall \/ SubtractNext

SpecSubtract == InitSubtract /\ [][NextSubtract]_vars

\* A uint32_t is written <<high, low>>, its two 16-bit halves, so that no
\* value handled exceeds 31 bits.
BitOf(word, j) ==
    IF j < 0 THEN 0
    ELSE IF j >= 16 THEN (word[1] \div 2^(j - 16)) % 2
    ELSE (word[2] \div 2^j) % 2

\* word % m for a modulus above 2^16, bit by bit from the high half down.
RECURSIVE ModBits(_, _, _, _)
ModBits(word, j, r, modulus) ==
    IF j < 0 THEN r ELSE ModBits(word, j - 1, (2 * r + BitOf(word, j)) % modulus, modulus)

\* m_scaleTime1024 mutated: the modulus is 2^11 * 15625.
m_scaleTime1024ShortModulus(word) ==
    LET reduced == ModBits(word, 15, word[1], (2^11) * 15625)
        shifted == (reduced % 2^28) * 2^4
    IN  [time |-> (shifted \div 15625) % 2^16, shiftedOut |-> reduced \div 2^28]

\* BLEConnection::m_scaleTime1024(us): us %= (1<<12) * 15625; us <<= 4 in
\* 32 bits, which drops the four highest bits (kept in shiftedOut);
\* us /= 15625; the return converts to uint16_t.
m_scaleTime1024(word) ==
    LET reduced == ModBits(word, 15, word[1], (2^12) * 15625)
        shifted == (reduced % 2^28) * 2^4
    IN  [time |-> (shifted \div 15625) % 2^16, shiftedOut |-> reduced \div 2^28]

\* The times the function is tried on: the ends of the 32-bit range, the
\* steps of the divisor, both sides of the modulus and of its multiples, and
\* the time of the test program.
HighHalves == {0, 1, 488, 976, 977, 32767, 32768, 39672, 65429, 65535}

LowHalves == {0, 1, 15624, 15625, 18431, 18432, 36863, 36864, 45055, 45056, 55808, 65535}

ScaleInputs == {<<high, low>> : high \in HighHalves, low \in LowHalves}

\* m_scaleTime1024(scaleUs).
ScaleCall ==
    /\ scaleTime = NoResult
    /\ scaleTime' = m_scaleTime1024(scaleUs)
    /\ UNCHANGED <<subState1, subState2, subResult, scaleUs, blePower, m_measData>>
    /\ UNCHANGED pureFrame

\* The caller goes on to its next time.
ScaleNext ==
    /\ scaleTime # NoResult
    /\ scaleUs' \in ScaleInputs
    /\ scaleTime' = NoResult
    /\ UNCHANGED <<subState1, subState2, subResult, blePower, m_measData>>
    /\ UNCHANGED pureFrame

InitScale ==
    /\ PureBase
    /\ subState1 = KALMAN_X0 /\ subState2 = KALMAN_X0 /\ subResult = NoResult
    /\ scaleUs \in ScaleInputs
    /\ scaleTime = NoResult
    /\ blePower = 0 /\ m_measData = NoResult

NextScale == ScaleCall \/ ScaleNext

SpecScale == InitScale /\ [][NextScale]_vars

\* (uint8_t) of a signed value: its low eight bits.
ToByte(value) == ((value % 2^8) + 2^8) % 2^8

\* The int16_t values.
PowerValues == (-(2^15)) .. (2^15 - 1)

\* BLEConnection::runActive on a low-speed record: int16_t power =
\* lowSpeed.power; m_measData[2] = (uint8_t)(power); m_measData[3] =
\* (uint8_t)(power > 8), the value of a comparison.
BLEMeasurement ==
    /\ m_measData = NoResult
    /\ m_measData' = [i \in {2, 3} |-> IF i = 2 THEN ToByte(blePower)
                                       ELSE ToByte(IF blePower > 8 THEN 1 ELSE 0)]
    /\ UNCHANGED <<subState1, subState2, subResult, scaleUs, scaleTime, blePower>>
    /\ UNCHANGED pureFrame

InitMeasurement ==
    /\ PureBase
    /\ subState1 = KALMAN_X0 /\ subState2 = KALMAN_X0 /\ subResult = NoResult
    /\ scaleUs = <<0, 0>> /\ scaleTime = NoResult
    /\ blePower \in PowerValues
    /\ m_measData = NoResult

NextMeasurement == BLEMeasurement

SpecMeasurement == InitMeasurement /\ [][NextMeasurement]_vars

----------------------------------------------------------------------------
(* Specification of the pipeline with one dead ADC, under fair scheduling *)

\* The side whose ADC keeps delivering, and the side whose ADC has died.
LiveSide == "left"

DeadSide == "right"

\* MQTT is connected, so every queue exists and the Active loop empties them;
\* one ADC is alive and the other never raises its interrupt.
InitLive ==
    /\ ConnActive("MQTT")
    /\ MeasBoot
    /\ adcAlive = [s \in Sides |-> s = LiveSide]
    /\ now = MaxTime
    /\ imuHowOften = 1

\* One step of taskLowSpeed.
LowSpeedTask ==
    \/ LSWaitReturn
    \/ LSWaitTimeout
    \/ LSClear
    \/ LSSnapshot
    \/ LSReadLeft
    \/ LSReadRight
    \/ LSTimeoutSnap
    \/ LSCheck
    \/ LSSend

NextLive ==
    \/ IMUTask
    \/ ADCInterrupt
    \/ SideTaskWake
    \/ SideTaskTimeout
    \/ LowSpeedTask
    \/ MQTTActiveLoop

\* The ADC that is alive raises its interrupt whenever it is attached.  A
\* side task (priority 2, xTaskNotifyWait with a 100 ms timeout) runs as soon
\* as it is ready: only the IMU task and interrupts come before it.  The
\* tasks of priority 1 share the time the side tasks leave, which comes back
\* again and again because a side task blocks after each sample.  Nothing is
\* asked of the IMU, nor of the dead ADC.
FairLive ==
    /\ WF_vars(irqAmp(LiveSide))
    /\ WF_vars(SideWake(LiveSide))
    /\ WF_vars(SideTimeout(DeadSide))
    /\ SF_vars(LowSpeedTask)
    /\ SF_vars(MQTTActiveLoop)

SpecLive == InitLive /\ [][NextLive]_vars /\ FairLive

----------------------------------------------------------------------------
(* Specification of the connection subsystem *)

InitConn ==
    /\ transport \in {"MQTT", "BLE"}
    /\ connState = "NotStarted"
    /\ connPc = "enter"
    /\ connNotifyValue = {}
    /\ connNotifyPending = FALSE
    /\ m_taskHandle = FALSE
    /\ m_connected = FALSE
    /\ wifiUp = FALSE
    /\ mqttUp = FALSE
    /\ bleCentral = FALSE
    /\ bleAdvertising = FALSE
    /\ queues = [n \in QueueNames |-> <<>>]
    /\ prodPc = [p \in Producers |-> "idle"]
    /\ observed = [p \in Producers |-> FALSE]
    /\ topPc = "setup"
    /\ MeasBoot
    /\ now = 0
    /\ adcAlive = [s \in Sides |-> TRUE]
    /\ imuHowOften = 1

AddToQueueCheck == \E p \in Producers : ProducerCheck(p)

AddToQueueSend == \E p \in Producers : ProducerSend(p)

NextConn ==
    \/ AddToQueueCheck
    \/ AddToQueueSend
    \/ ConnTaskStart
    \/ DisabledEnter
    \/ DisabledWait
    \/ WiFiConnectEnter
    \/ WiFiConnectPoll
    \/ MQTTConnectEnter
    \/ MQTTConnectPoll
    \/ MQTTConnectDelay
    \/ MQTTActiveEnter
    \/ MQTTActiveLoop
    \/ BLEConnectEnter
    \/ BLEConnectPoll
    \/ BLEActiveEnter
    \/ BLEActiveLoop
    \/ ShutdownRun
    \/ WifiConnects
    \/ LinkDrops
    \/ CentralChanges
    \/ TopSetupDone
    \/ TopEnable
    \/ TopLeaveActive
    \/ TopDisable
    \/ TopPowerDown

SpecConn == InitConn /\ [][NextConn]_vars

----------------------------------------------------------------------------
(* Claims about the connection subsystem *)

\* Producer p appends a record in this step.
Enqueues(p) ==
    /\ prodPc[p] = "send" /\ prodPc'[p] = "idle"
    /\ Len(queues'[QueueOf(p)]) > Len(queues[QueueOf(p)])

\* C1, as stated: in every step in which some producer appends a record to a
\* transport queue, the accept-data flag is true.
C1_NoEnqueueWhileFlagFalse ==
    [][\A p \in Producers : Enqueues(p) => m_connected]_vars

\* C1, amended: a producer appends a record only after its own read of the
\* accept-data flag in the same m_addToQueue call returned true; for the IMU
\* task and the side tasks (higher priority than the connection task, same
\* core) the flag is also still true at the moment of the append.
C1_EnqueueOnlyAfterObservingTrue ==
    [][\A p \in Producers :
          Enqueues(p) => /\ observed[p]
                         /\ p \in HighPriority => m_connected]_vars

\* C1 witness: the low-speed task has read the flag as true and is about to
\* send, and the connection task has cleared the flag in between.
C1_Witness ==
    /\ prodPc["lowspeed"] = "send" /\ observed["lowspeed"]
    /\ ~m_connected
    /\ Len(queues["lowspeed"]) = 0

\* The Active state's disable check takes the disable bit in this step.
ActiveSeesDisable ==
    /\ connState = "Active" /\ connPc = "loop"
    /\ connPc' # connPc
    /\ connNotifyPending /\ CONN_NOTIFY_DISABLE \in connNotifyValue
    /\ CONN_NOTIFY_DISABLE \notin connNotifyValue'

\* C2: under either transport, when the Active state receives the disable
\* notification the machine goes to Shutdown (from where it reaches Disabled);
\* it neither returns to a Connect state nor stays in Active.
C2_DisableInActiveGoesToShutdown ==
    [][ActiveSeesDisable => connState' = "Shutdown"]_vars

\* C3: in Shutdown the accept-data flag is already false whenever a transport
\* resource is released, and the state after Shutdown is Disabled.
C3_ShutdownClearsFlagFirst ==
    [][connState = "Shutdown" /\ connPc' # connPc =>
          /\ ShutdownStep(transport, connPc) \in ReleaseSteps => ~m_connected
          /\ connState' # "Shutdown" => connState' = "Disabled"]_vars

\* C3 witness: Shutdown was entered from Active with the flag set, has
\* cleared it and has released its first resource.
C3_Witness ==
    /\ connState = "Shutdown" /\ connPc = "s3"
    /\ ~m_connected /\ ~mqttUp /\ wifiUp
    /\ Len(queues["left"]) > 0

----------------------------------------------------------------------------
(* Claims about the rotation detector *)

SectorsOf(w) == [i \in 1 .. Len(w) |-> w[i].sector]

\* The samples of w were fed to a disarmed detector whose last sector was 0.
FromDisarmedAtZero(w) == ~w[1].armed /\ w[1].last = 0

Suffixes(w) == {SubSeq(w, k, Len(w)) : k \in 1 .. Len(w)}

\* C4: fed to a disarmed detector whose last sector is 0, the sector sequence
\* (0, 1, 0) leaves the rotation count as it was and the sequence
\* (0, 1, 2, 0) raises it by exactly one.
C4_BounceNotCountedCycleCountedOnce ==
    \A w \in Suffixes(window) :
        FromDisarmedAtZero(w) =>
            /\ SectorsOf(w) = <<0, 1, 0>> => w[3].after = w[1].before
            /\ SectorsOf(w) = ForwardCycle => w[4].after = w[1].before + 1

\* C4 witness: a rotation counted on a full (0, 1, 2, 0) cycle that started
\* from a disarmed detector.
C4_Witness ==
    /\ Len(window) = 4
    /\ SectorsOf(window) = ForwardCycle
    /\ FromDisarmedAtZero(window)
    /\ window[4].after = window[1].before + 1

\* C5: the rotation count rises only on a 2 -> 0 transition that completes a
\* forward traversal 0 -> 1 -> 2 -> 0 of the sectors; a detector that moved
\* backwards after arming counts nothing.
C5_CountedOnlyAfterForwardCycle ==
    [][rotations' # rotations => path' = ForwardCycle]_vars

----------------------------------------------------------------------------
(* Claims about the low-speed task *)

LowSpeedQueue == queues["lowspeed"]

\* C6: the rotation count of a low-speed record about to be offered to the
\* queue, built on success or on timeout, is at least the rotation count of
\* the record enqueued before it.
C6_RecordCountsNonDecreasing ==
    /\ lsPc \in {"check", "send"} => lsRecord.rotationCount >= lsLastCount
    /\ Len(LowSpeedQueue) > 0 => LowSpeedQueue[1].rotationCount = lsLastCount

\* C6 witness: a record carrying rotation count 1 was enqueued and drained,
\* and a timeout record is about to be sent after it.
C6_Witness ==
    /\ lsPc = "send" /\ ~lsSuccess
    /\ lsLastCount = 1 /\ lsRecord.rotationCount = 1
    /\ Len(LowSpeedQueue) = 0

\* The positions of taskLowSpeed between a successful rendezvous and the
\* finished record.
SuccessPath == {"clear", "snap", "left", "right"}

\* C7: the low-speed task enters the path that reads the two averages and
\* builds a non-timeout record only from its wait, and only when both side
\* bits are set in its notification value; a record counts as non-timeout
\* only on that path.
C7_SuccessNeedsBothBits ==
    [][/\ (lsPc' \in SuccessPath /\ lsPc \notin SuccessPath) =>
              (lsPc = "wait" /\ lsNotifyValue = BothSideBits)
       /\ lsSuccess' => (lsSuccess \/ lsPc' = "clear")
       /\ lsPc' \in SuccessPath => lsSuccess']_vars

\* C7 witness: a non-timeout record for rotation 1 is complete.
C7_Witness ==
    /\ lsPc = "check" /\ lsSuccess
    /\ lsRecord.rotationCount = 1

\* C8: the record built after a rendezvous timeout has power 0, balance 50
\* and the IMU's current rotation count, rotation time and rotation
\* duration; the record that goes into the queue is that record.
C8_TimeoutRecord ==
    [][/\ (lsPc = "tsnap" /\ lsPc' = "check") =>
              lsRecord' = [rotationCount |-> rotations,
                           timestamp |-> m_lastRotationTime,
                           lastRotationDuration |-> m_lastRotationDuration,
                           power |-> FInt(0), balance |-> FInt(50)]
       /\ (lsPc = "send" /\ ~lsSuccess /\ Len(LowSpeedQueue') > Len(LowSpeedQueue)) =>
              LowSpeedQueue'[Len(LowSpeedQueue')] = lsRecord]_vars

\* C8 witness: a timeout record taken after the first rotation is in the
\* queue.
C8_Witness ==
    /\ Len(LowSpeedQueue) = 1
    /\ LowSpeedQueue[1].rotationCount = 1
    /\ LowSpeedQueue[1].timestamp = MaxTime
    /\ LowSpeedQueue[1].power = FInt(0) /\ LowSpeedQueue[1].balance = FInt(50)

\* The balance the record should carry for side averages left and right.
ExpectedBalance(left, right) ==
    LET total == FAdd(left, right)
    IN  IF total.k = "fin" /\ total.n > 0
        THEN FDiv(FMul(FInt(100), right), total)
        ELSE FInt(50)

\* C9: on a successful rendezvous the balance is 100 * R / (L + R) when the
\* total L + R is greater than zero and exactly 50 otherwise; nothing is
\* divided by zero.
C9_BalanceGuardsZeroTotal ==
    [][(lsPc = "right" /\ lsPc' = "check") =>
          lsRecord'.balance = ExpectedBalance(lsLeft, averagePower["right"])]_vars


\* The step in which side s's task takes a sample's notification and runs
\* processData to its end.
SampleHandled(s) == sideNotifyPending[s] /\ ~sideNotifyPending'[s]

\* C11: an enqueue attempt on a full transport queue returns without
\* blocking and leaves the queue as it was: the new record is dropped and
\* the producer goes on to wait for its next sample.  No step changes a full
\* queue other than by taking records from its head.
C11_FullQueueDropsNewRecord ==
    [][/\ \A s \in Sides :
              (SampleHandled(s) /\ Len(queues[s]) = QueueLength(transport, s)) =>
                  /\ queues'[s] = queues[s]
                  /\ m_lastTime'[s] = sideNotifyValue[s]
                  /\ irqAttached'[s]
       /\ \A n \in QueueNames :
              Len(queues[n]) = QueueLength(transport, n) =>
                  \E k \in 0..Len(queues[n]) :
                      queues'[n] = SubSeq(queues[n], k + 1, Len(queues[n]))]_vars

\* A sample was handled while the queue was full: the queue is full and its
\* newest record is not the sample the side task handled last.
C11_Witness ==
    \E s \in Sides :
        /\ Len(queues[s]) = QueueLength(transport, s)
        /\ Len(queues[s]) > 0
        /\ ~sideNotifyPending[s]
        /\ queues[s][Len(queues[s])].timestamp # m_lastTime[s]

C13_TimestampsNonDecreasing ==
    \A s \in Sides : \A i \in 1..(Len(queues[s]) - 1) :
        queues[s][i].timestamp <= queues[s][i+1].timestamp

\* C13: within a side's queue the records stand in the order of their
\* capture; from one record to the next the 32-bit timestamp moves forward
\* by the time between the two interrupts, taken modulo 2^32, so its value
\* falls only where micros() has wrapped in between.
C13_TimestampsInCaptureOrder ==
    \A s \in Sides : \A i \in 1..(Len(queues[s]) - 1) :
        /\ 2 * TimeSub(queues[s][i+1].timestamp, queues[s][i].timestamp) < TimerModulus
        /\ queues[s][i].timestamp > queues[s][i+1].timestamp =>
               /\ queues[s][i].timestamp > MaxTime
               /\ queues[s][i+1].timestamp <= MaxTime

\* Two records taken before the wrap and one after it.
C13_Witness ==
    \E s \in Sides :
        /\ Len(queues[s]) = 3
        /\ queues[s][1].timestamp = TimerModulus - 1
        /\ queues[s][2].timestamp = 0
        /\ queues[s][3].timestamp > 0

----------------------------------------------------------------------------
(* Kalman filter claims *)

InRange(angle) == FGt(angle, FInt(-Pi)) /\ FLe(angle, FInt(Pi))

\* The angle a prediction at the queried time arrives at before it is limited.
RawAngle(time) == FAdd(m_xState[1], FMul(m_xState[2], timestep(time, m_lastTimestamp)))

\* C14: every angle the filter returns from a prediction, and every angle it
\* stores after an update, lies in (-pi, pi], however many turns the raw value
\* is away from that interval.
C14_AngleWrappedIntoRange ==
    /\ \A i \in 1..Len(predicted) : InRange(predicted[i].x[1])
    /\ updates > 0 => InRange(m_xState[1])

\* A prediction whose raw angle was more than one turn above the interval,
\* and an update behind it.
C14_Witness ==
    /\ updates > 0
    /\ InRange(m_xState[1])
    /\ \E i \in 1..Len(predicted) :
           /\ FGt(RawAngle(predicted[i].time), FInt(Pi + TwoPi))
           /\ InRange(predicted[i].x[1])

PredictStep == predicted' # NoPrediction /\ updates' = updates

\* C15: a predict-only query leaves the stored state, covariance and last
\* timestamp as they were, and two queries for the same time between updates
\* return the same state and covariance.
C15_PredictIsSideEffectFree ==
    [][/\ PredictStep => UNCHANGED <<m_xState, m_pCovariance, m_lastTimestamp>>
       /\ (Len(predicted') = 2 /\ predicted'[1].time = predicted'[2].time)
              => predicted'[1] = predicted'[2]]_vars

\* Two queries for the same time, which moved the angle, were answered.
C15_Witness ==
    /\ Len(predicted) = 2
    /\ predicted[1].time = predicted[2].time
    /\ predicted[1] = predicted[2]
    /\ predicted[1].x # m_xState

\* The microseconds from the last update to the time given, the counter
\* having wrapped at most once in between.
Elapsed(time, last) == IF time >= last THEN time - last ELSE time + TimerModulus - last

\* C16: the time step of a prediction, in predict and in update alike, is the
\* elapsed time from the last update in seconds, taken as an unsigned
\* difference: it is never negative, also when the counter has wrapped.
C16_TimestepIsUnsignedDifference ==
    [][/\ PredictStep =>
              \E q \in {predicted'[Len(predicted')]} :
                  \E r \in {predictStep(m_xState, m_pCovariance,
                                Fin(Elapsed(q.time, m_lastTimestamp), TicksPerSecond))} :
                      /\ FLe(FInt(0), timestep(q.time, m_lastTimestamp))
                      /\ q.x = r.x /\ q.p = r.p
       /\ updates' # updates =>
              \E pred \in {predictStep(m_xState, m_pCovariance,
                               Fin(Elapsed(m_lastTimestamp', m_lastTimestamp), TicksPerSecond))} :
                  \E z \in Measurements :
                      \E r \in {refine(pred, z)} : m_xState' = r.x /\ m_pCovariance' = r.p]_vars

\* A query for a time numerically before the last update moved the angle.
C16_Witness ==
    /\ Len(predicted) > 0
    /\ predicted[Len(predicted)].time < m_lastTimestamp
    /\ predicted[Len(predicted)].x[1] # m_xState[1]
    /\ updates > 0

----------------------------------------------------------------------------
(* Calibration claim *)

\* The calibration started on side s has taken all its samples.
CalibrationDone(s) == calibrated[s] /\ m_offsetSteps[s] = 0

\* C17: once a calibration has taken its 200 samples, all of them equal to
\* the raw value r, the stored zero offset is r, and a later reading of r
\* gives a torque of exactly 0.
C17_OffsetEqualsSteadyReading ==
    \A s \in Sides :
        (CalibrationDone(s) /\ adcAlive[s]) =>
            /\ offset[s] = steadyRaw[s]
            /\ torque[s] # NoTorque => torque[s] = FInt(0)

\* What the code stores instead: 200 times the truncated quotient.
CalibrationStoresTruncatedSum ==
    \A s \in Sides :
        (CalibrationDone(s) /\ adcAlive[s]) =>
            /\ offset[s] = OFFSET_COMPENSATION_SAMPLES *
                               (steadyRaw[s] \div OFFSET_COMPENSATION_SAMPLES)
            /\ torque[s] # NoTorque =>
                   torque[s] = FInt(steadyRaw[s] % OFFSET_COMPENSATION_SAMPLES)

\* A finished calibration on a reading that is no multiple of 200, and a
\* sample processed after it.
C17_Witness ==
    /\ CalibrationDone("left")
    /\ steadyRaw["left"] = 9848390
    /\ torque["left"] # NoTorque

----------------------------------------------------------------------------
(* Specification of the top-level state machine: Active, Sleep, Flat *)

\* Battery readings, as their distance from MINIMUM_BATTERY in mV.
BatteryReadings == {-1, 0, 1}

\* config.sleepTime in seconds: 0 disables sleeping.
SleepTimes == {0, 1}

\* Counter mutated: a good reading leaves the count as it is.
FlatCountNoReset(count, reading) == IF reading < 0 THEN count - 1 ELSE count

\* StateActive::enter: if (housekeeping.battery < MINIMUM_BATTERY)
\* m_flatSuccessiveReadings--; else m_flatSuccessiveReadings =
\* MINIMUM_BATTERY_SUCCESSIVE.
FlatCountAfter(count, reading) ==
    IF reading < 0 THEN count - 1 ELSE MINIMUM_BATTERY_SUCCESSIVE

\* StateActive::m_isActive: duration = (micros() - data.timestamp) / 1000000L
\* with data.timestamp = m_lastRotationTime, both uint32_t.
SecondsSinceRotation == TimeSub(now, m_lastRotationTime) \div TicksPerSecond

\* m_isActive mutated: a sleep time of 0 is compared like any other.
m_isActiveNoZero == SecondsSinceRotation < sleepTime

m_isActive == sleepTime = 0 \/ SecondsSinceRotation < sleepTime

\* Wake-up sources mutated: Flat arms what Sleep arms.
WakeupSourcesKept(state) == {{"ext0"}, {"timer"}}

\* The wake-up sources armed before esp_deep_sleep_start: StateSleep arms
\* ext0 or, on hardware without ACCEL_RTC_CAPABLE, the 20 s timer;
\* StateFlatBattery disables ESP_SLEEP_WAKEUP_ALL.
WakeupSources(state) == IF state = "Sleep" THEN {{"ext0"}, {"timer"}} ELSE {{}}

\* One pass of StateActive's loop after addHousekeeping has returned: the
\* loop condition, then the battery check on this pass's reading.
TopHousekeeping(reading) ==
    /\ HighPriorityIdle
    /\ topPc = "active" /\ topState = "Active" /\ prodPc["housekeeping"] = "idle"
    /\ IF ~m_isActive
       THEN /\ topPc' = "leaving" /\ topState' = "Sleep"
            /\ UNCHANGED <<m_flatSuccessiveReadings, lowRun>>
       ELSE /\ m_flatSuccessiveReadings' = FlatCountAfter(m_flatSuccessiveReadings, reading)
            /\ lowRun' = IF reading < 0 THEN lowRun + 1 ELSE 0
            /\ IF m_flatSuccessiveReadings' = 0
               THEN topPc' = "leaving" /\ topState' = "Flat"
               ELSE UNCHANGED <<topPc, topState>>
    /\ UNCHANGED <<transport, connState, connPc, connNotifyValue, connNotifyPending,
                   m_taskHandle, m_connected, wifiUp, mqttUp, bleCentral, bleAdvertising,
                   queues, prodPc, observed>>
    /\ UNCHANGED <<sleepTime, wakeSources, published, kalmanVars, calVars, moreVars>>
    /\ UNCHANGED <<imuVars, historyVars, sideVars, lowVars>>

TopHousekeepingLoop == \E reading \in BatteryReadings : TopHousekeeping(reading)

\* StateSleep::enter / StateFlatBattery::enter after the delay: powerDown,
\* the wake-up sources, esp_deep_sleep_start.
TopDeepSleep ==
    /\ HighPriorityIdle
    /\ topPc = "delay"
    /\ topPc' = "off"
    /\ wakeSources' \in WakeupSources(topState)
    /\ UNCHANGED <<transport, connState, connPc, connNotifyValue, connNotifyPending,
                   m_taskHandle, m_connected, wifiUp, mqttUp, bleCentral, bleAdvertising,
                   queues, prodPc, observed>>
    /\ UNCHANGED <<topState, m_flatSuccessiveReadings, sleepTime, lowRun, published,
                   kalmanVars, calVars, moreVars>>
    /\ UNCHANGED <<imuVars, historyVars, sideVars, lowVars>>

\* An armed wake-up source fires: the MCU restarts, setup() runs again and
\* the state machine starts in Active.  The configuration is kept.
TopWake ==
    /\ topPc = "off"
    /\ wakeSources # {}
    /\ topPc' = "setup"
    /\ connState' = "NotStarted" /\ connPc' = "enter"
    /\ connNotifyValue' = {} /\ connNotifyPending' = FALSE
    /\ m_taskHandle' = FALSE /\ m_connected' = FALSE
    /\ wifiUp' = FALSE /\ mqttUp' = FALSE
    /\ bleCentral' = FALSE /\ bleAdvertising' = FALSE
    /\ queues' = [n \in QueueNames |-> <<>>]
    /\ prodPc' = [p \in Producers |-> "idle"]
    /\ observed' = [p \in Producers |-> FALSE]
    /\ now' = 0
    /\ topState' = "Active"
    /\ m_flatSuccessiveReadings' = MINIMUM_BATTERY_SUCCESSIVE
    /\ lowRun' = 0
    /\ wakeSources' = {}
    /\ UNCHANGED <<transport, sleepTime, imuState, historyVars, sideVars, lowVars,
                   published, kalmanVars, calVars, moreVars>>

\* BLE is connected, no rotation has been seen since boot, and the
\* microsecond counter is at its start or about to wrap.
InitTop ==
    /\ ConnActive("BLE")
    /\ PipelineBoot /\ RestBoot /\ KalmanBoot /\ CalBoot /\ TopBoot
    /\ sleepTime \in SleepTimes
    /\ adcAlive = [s \in Sides |-> TRUE]
    /\ now \in {0, TimerModulus - 1}
    /\ imuHowOften = 1

NextTop ==
    \/ ClockAdvance
    \/ ProducerCheck("housekeeping")
    \/ ProducerSend("housekeeping")
    \/ ConnTaskStart
    \/ DisabledEnter
    \/ DisabledWait
    \/ BLEConnectEnter
    \/ BLEConnectPoll
    \/ BLEActiveEnter
    \/ BLEActiveLoop
    \/ ShutdownRun
    \/ CentralChanges
    \/ TopSetupDone
    \/ TopEnable
    \/ TopHousekeepingLoop
    \/ TopDisable
    \/ TopDeepSleep
    \/ TopWake

SpecTop == InitTop /\ [][NextTop]_vars

----------------------------------------------------------------------------
(* Top-level state machine claims *)

\* C18: Active is left for Flat exactly when the last
\* MINIMUM_BATTERY_SUCCESSIVE battery readings in a row were below the
\* cutoff: the counter is that number less the length of the current run of
\* low readings, and a reading at or above the cutoff starts the run again.
C18_FlatAfterSuccessiveLowReadings ==
    [][/\ (topState = "Active" /\ topState' = "Flat") => lowRun' = MINIMUM_BATTERY_SUCCESSIVE
       /\ lowRun' = MINIMUM_BATTERY_SUCCESSIVE => topState' = "Flat"
       /\ m_flatSuccessiveReadings' + lowRun' = MINIMUM_BATTERY_SUCCESSIVE
       /\ (lowRun # 0 /\ lowRun' = 0) =>
              (topState' = "Active" /\ m_flatSuccessiveReadings' = MINIMUM_BATTERY_SUCCESSIVE)]_vars

\* Flat has been entered on the last of the low readings.
C18_Witness ==
    /\ topState = "Flat"
    /\ lowRun = MINIMUM_BATTERY_SUCCESSIVE
    /\ m_flatSuccessiveReadings = 0

\* C19: once in Flat the machine stays in Flat, and it goes into deep sleep
\* with no wake-up source armed.
C19_FlatIsTerminal ==
    [][/\ topState = "Flat" => topState' = "Flat"
       /\ (topState' = "Flat" /\ topPc' = "off") => wakeSources' = {}]_vars

\* Flat is in deep sleep.
C19_Witness == topState = "Flat" /\ topPc = "off" /\ wakeSources = {}

\* C20 as stated: Active is left for Sleep only with a sleep time above 0
\* that the time since the last rotation exceeds.
C20_SleepOnlyWhenTimeoutExceeded ==
    [][(topState = "Active" /\ topState' = "Sleep") =>
           /\ sleepTime > 0
           /\ TimeSub(now, m_lastRotationTime) > sleepTime * TicksPerSecond]_vars

\* C20: Active is left for Sleep only with a sleep time above 0 that the
\* time since the last rotation has reached; with a sleep time of 0 never.
C20_SleepOnlyWhenTimeoutReached ==
    [][(topState = "Active" /\ topState' = "Sleep") =>
           /\ sleepTime > 0
           /\ TimeSub(now, m_lastRotationTime) >= sleepTime * TicksPerSecond]_vars

\* Sleep has been chosen at the moment the sleep time had just run out.
C20_Witness ==
    /\ topState = "Sleep" /\ topPc = "leaving"
    /\ sleepTime > 0
    /\ TimeSub(now, m_lastRotationTime) = sleepTime * TicksPerSecond

----------------------------------------------------------------------------
(* Leaving Active: disable, delay, power-down *)

\* C21: the hardware is powered down only from the delay that follows the
\* disable notification, and only when accept-data is false and no producer
\* is inside m_addToQueue about to send.
C21_PowerDownAfterProducersStop ==
    [][(topPc # "off" /\ topPc' = "off") =>
           /\ topPc = "delay"
           /\ ~m_connected
           /\ \A p \in Producers : prodPc[p] = "idle"]_vars

\* The MCU is in deep sleep although the BLE connection task has taken the
\* disable notification and is back in its Active loop with accept-data true.
C21_Witness ==
    /\ topPc = "off"
    /\ transport = "BLE"
    /\ connState = "Active" /\ connPc = "loop"
    /\ connNotifyValue = {} /\ ~connNotifyPending
    /\ m_connected


----------------------------------------------------------------------------
(* Configuration *)

\* config.load() found nothing it could use in the store.
BootStoreUnusable ==
    \/ prefsAtBoot = NoKey
    \/ prefsAtBoot.type # "PT_BLOB"
    \/ prefsAtBoot.length # ConfigSize

\* config.load() has run and nothing has changed the configuration since.
JustLoaded == confPc = "run" /\ confLast = NoPayload

\* C22: after config.load() at startup, if the stored entry was absent, not a
\* blob or not of the size of the Config object, the configuration holds its
\* defaults and the store holds those defaults; otherwise (a blob of matching
\* size) the configuration is the stored one and the store is untouched.
C22_LoadKeepsDefaultsUnlessSizeMatches ==
    JustLoaded =>
        IF BootStoreUnusable
        THEN ConfigValue = Defaults /\ prefs = putBytes(Defaults)
        ELSE ConfigValue = prefsAtBoot.bytes /\ prefs = prefsAtBoot

\* The store held a blob of the wrong size whose bytes were not the defaults;
\* after load the configuration is the defaults and the store holds them.
C22_Witness ==
    /\ JustLoaded
    /\ prefsAtBoot # NoKey
    /\ prefsAtBoot.type = "PT_BLOB"
    /\ prefsAtBoot.length # ConfigSize
    /\ prefsAtBoot.bytes # Defaults
    /\ ConfigValue = Defaults
    /\ prefs = putBytes(Defaults)

\* readJSON has been given a payload.
PayloadRead == confLast # NoPayload

\* The last payload named a connection type readJSON does not know.
ConnectionRejected ==
    PayloadRead /\ confLast.payload.json /\ confLast.payload.connection \notin {0, 1}

\* The last payload asked for a batch longer than the buffer.
LengthRejected ==
    PayloadRead /\ confLast.payload.json
        /\ confLast.payload.length > MQTT_FAST_BUFFER

\* The last payload did not parse, or held a field readJSON rejects.
PayloadInvalid ==
    PayloadRead /\ (~confLast.payload.json \/ ConnectionRejected \/ LengthRejected)

\* C23 as stated: an invalid payload, unparseable or holding a rejected field,
\* leaves every configuration value as it was before the payload arrived.
C23_InvalidPayloadRejectedWhole ==
    PayloadInvalid => ConfigValue = confLast.before

\* C23: a payload that does not parse leaves every configuration value as it
\* was; in a payload that parses, a rejected field (unknown connection type,
\* batch length above the buffer) keeps its previous value and the remaining
\* fields of the same payload are applied.
C23_RejectedFieldsKeepTheirValue ==
    PayloadRead =>
        /\ ~confLast.payload.json => ConfigValue = confLast.before
        /\ ConnectionRejected => transport = confLast.before.connectionMethod
        /\ LengthRejected => mqttPacketSize = confLast.before.mqttPacketSize
        /\ confLast.payload.json => imuHowOften = confLast.payload.imuHowOften

\* A payload with an unknown connection type and a batch length above the
\* buffer has kept both fields and changed the IMU decimation factor.
C23_Witness ==
    /\ ConnectionRejected /\ LengthRejected
    /\ transport = confLast.before.connectionMethod
    /\ mqttPacketSize = confLast.before.mqttPacketSize
    /\ imuHowOften # confLast.before.imuHowOften
    /\ imuHowOften = confLast.payload.imuHowOften

----------------------------------------------------------------------------
(* IMU record decimation *)

\* C24: with decimation factor N >= 1, every N consecutive valid samples,
\* counted from the first sample after start, hand exactly one record to
\* addIMU: after k valid samples k \div N records have been offered, so with
\* N = 1 every valid sample, the first included, has produced one.
C24_OneRecordPerNSamples ==
    imuOffered = imuValid \div imuHowOften

\* With N = 1 the first valid sample has been processed and no record has
\* been offered.
C24_Witness ==
    /\ imuHowOften = 1
    /\ imuValid = 1
    /\ imuOffered = 0

----------------------------------------------------------------------------
(* Reported power *)

\* The low-speed task holds a record built after a successful rendezvous for
\* a completed rotation.
RendezvousRecord ==
    lsPc \in {"check", "send"} /\ lsSuccess /\ lsRecord.rotationCount > 0

\* C25: the power of a record built after a successful rendezvous is the sum
\* over both sides of the energy the side accumulated for the rotation,
\* divided by the duration of the rotation the record carries (taken in
\* ticks of micros() or in seconds).
C25_PowerIsEnergyOverRotationDuration ==
    RendezvousRecord =>
        \/ lsRecord.power = FDiv(lsEnergy, FInt(lsRecord.lastRotationDuration))
        \/ lsRecord.power =
               FDiv(lsEnergy, Fin(lsRecord.lastRotationDuration, TicksPerSecond))

\* A record for a rotation of non-zero duration and non-zero energy whose
\* power is neither quotient.
C25_Witness ==
    /\ RendezvousRecord
    /\ lsRecord.lastRotationDuration > 0
    /\ lsEnergy # FInt(0)
    /\ lsRecord.power # FDiv(lsEnergy, FInt(lsRecord.lastRotationDuration))
    /\ lsRecord.power #
           FDiv(lsEnergy, Fin(lsRecord.lastRotationDuration, TicksPerSecond))

----------------------------------------------------------------------------
(* Sector classifier *)

\* m_angleToSector has been called.
Classified == sectorArg # NoAngle

\* C26: an angle below -pi/3 is classified 0, an angle from -pi/3 up to but
\* not including pi/3 is classified 1, an angle at or above pi/3 is
\* classified 2; so -pi/3 gives 1 and pi/3 gives 2.
C26_SectorsLeftClosedRightOpen ==
    Classified =>
        /\ FLt(sectorArg, FInt(-SectorEdge)) => sectorOut = 0
        /\ FLe(FInt(-SectorEdge), sectorArg) /\ FLt(sectorArg, FInt(SectorEdge))
               => sectorOut = 1
        /\ FLe(FInt(SectorEdge), sectorArg) => sectorOut = 2
        /\ sectorArg = FInt(-SectorEdge) => sectorOut = 1
        /\ sectorArg = FInt(SectorEdge) => sectorOut = 2

\* The angle -pi/3 itself has been classified 1.
C26_Witness ==
    /\ Classified
    /\ sectorArg = FInt(-SectorEdge)
    /\ sectorOut = 1

----------------------------------------------------------------------------
(* Predict-only query against a concurrent update *)

\* C27: a predict-only query computes from a state, a covariance and a
\* last-update timestamp that belong to the same completed update: the
\* timestamp its time step used is the one that was stored when it copied
\* the state and the covariance.
C27_QueryUsesOneUpdate ==
    predPc = "done" => predUsedStamp = predCopyStamp

\* A query copied the state of the previous update and took its time step
\* from the timestamp of a later one.
C27_Witness ==
    /\ predPc = "done"
    /\ updates = 1
    /\ predUsedStamp = m_lastTimestamp
    /\ predUsedStamp # predCopyStamp

----------------------------------------------------------------------------
(* Rotation metadata on the low-speed record *)

\* The low-speed task holds a record whose rotation metadata is complete.
SnapshotTaken == lsPc \in {"left", "right", "check", "send"}

\* C28: the rotation count, time and duration of a low-speed record are those
\* of one rotation event: the time and the duration are the ones the IMU task
\* published together with that count.
C28_RecordIsOneRotationEvent ==
    SnapshotTaken =>
        rotationLog[lsRecord.rotationCount + 1] =
            [timestamp |-> lsRecord.timestamp,
             lastRotationDuration |-> lsRecord.lastRotationDuration]

\* The IMU task completed a rotation right after the low-speed task had left
\* setLowSpeedData: the record carries the event before it, whole.
C28_Witness ==
    /\ lsPc \in {"left", "check"}
    /\ lsRecord.rotationCount + 1 = rotations
    /\ rotationLog[rotations + 1] # rotationLog[rotations]
    /\ rotationLog[lsRecord.rotationCount + 1] =
           [timestamp |-> lsRecord.timestamp,
            lastRotationDuration |-> lsRecord.lastRotationDuration]

----------------------------------------------------------------------------
(* The low-speed task's notification word between two records *)

\* The low-speed task is done with a record and begins its next wait.
NextWaitBegins == lsPc \in {"check", "send"} /\ lsPc' = "wait"

\* C29: a record built after a successful rendezvous has passed the clearing
\* of the notification word, and when the next wait begins after a record
\* built on a timeout the word holds no side bit, so that no bit set before a
\* record counts towards the rendezvous for the next one.
C29_WordClearedBetweenRecords ==
    [][/\ lsPc' = "snap" => (lsPc \in {"clear", "snap"} /\ lsNotifyValue' = {})
       /\ (NextWaitBegins /\ ~lsSuccess) => lsNotifyValue' = {}]_vars

\* A record built on a timeout is about to be enqueued while the word holds
\* the left side's bit, and the next wait will find it there.
C29_Witness ==
    /\ lsPc = "send" /\ ~lsSuccess
    /\ lsNotifyValue = {SideBit("left")}
    /\ ~lsNotifyPending

----------------------------------------------------------------------------
(* Samples received during zero-offset calibration *)

\* The side task of s handles a received sample in this step.
SampleReceived(s) == sideNotifyPending[s] /\ ~sideNotifyPending'[s]

\* The samples the running or finished calibration of s has taken: each adds
\* the same amount to the offset, which started at 0.
CalibrationSamples(s) ==
    offset[s] \div (steadyRaw[s] \div OFFSET_COMPENSATION_SAMPLES)

\* C30, step by step: a sample received while the countdown is not 0 takes
\* one off it, leaves the side's queue as it is and still does the
\* average-power bookkeeping (a rotation seen is recorded and the low-speed
\* task notified); a sample received while it is 0 goes to the queue
\* whenever the queue has room and data is accepted.
C30_CalibrationSampleSteps ==
    [][\A s \in Sides :
          SampleReceived(s) =>
              IF m_offsetSteps[s] # 0
              THEN /\ m_offsetSteps'[s] = m_offsetSteps[s] - 1
                   /\ queues' = queues
                   /\ RotationSeen(s) =>
                          /\ m_lastRotation'[s] = rotations
                          /\ SideBit(s) \in lsNotifyValue'
              ELSE /\ m_offsetSteps'[s] = 0
                   /\ (m_connected /\ Len(queues[s]) < QueueLength(transport, s))
                          => Len(queues'[s]) = Len(queues[s]) + 1]_vars

\* C30, counted: the countdown and the samples taken add up to
\* OFFSET_COMPENSATION_SAMPLES, so the countdown is 0 after exactly that
\* many samples and not before.
C30_CountdownIsSamplesLeft ==
    \A s \in Sides :
        (calibrated[s] /\ adcAlive[s]) =>
            m_offsetSteps[s] + CalibrationSamples(s) = OFFSET_COMPENSATION_SAMPLES

\* C30: both of the above.
C30_CalibrationSkipsRecords ==
    C30_CalibrationSampleSteps /\ []C30_CountdownIsSamplesLeft

\* The calibration of the left side has taken its 200 samples, a rotation was
\* recorded by the side meanwhile, and a record has been enqueued since.
C30_Witness ==
    /\ calibrated["left"] /\ m_offsetSteps["left"] = 0
    /\ CalibrationSamples("left") = OFFSET_COMPENSATION_SAMPLES
    /\ m_lastRotation["left"] = 1
    /\ torque["left"] # NoTorque
    /\ Len(queues["left"]) > 0
----------------------------------------------------------------------------
(* The IMU event, the filter's arithmetic and the BLE payload *)

\* C31: an IMU sample whose accelerometer or gyroscope validity flag is
\* false changes nothing: the filter's state, covariance and last-update
\* time, the rotation detector and count, the decimation counter and the IMU
\* queue are after it what they were before.
C31_InvalidSampleChangesNothing ==
    [][imuDropped' # imuDropped =>
          UNCHANGED <<m_xState, m_pCovariance, m_lastTimestamp, m_lastRotationSector,
                      m_armRotationCounter, rotations, m_lastRotationTime,
                      m_lastRotationDuration, m_sendCount, queues>>]_vars

\* An invalid sample was dropped after a valid one had updated the filter and
\* put a record into the IMU queue.
C31_Witness == imuDropped > 0 /\ updates > 0 /\ Len(queues["imu"]) > 0

\* C35: with imuHowOften at -1 the sending of IMU data is disabled: no IMU
\* record is ever offered to the queue, however many valid samples arrive.
C35_NoRecordWhenDisabled == imuHowOften = -1 => imuOffered = 0

\* With imuHowOften at -1 every valid sample so far has been offered.
C35_Witness == imuHowOften = -1 /\ imuValid = MaxSamples /\ imuOffered = imuValid

\* The distances from the ends of the interval for which pi - e and -pi + e
\* are less than half a turn apart the short way.
SmallEpsilons == {Fin(n, AngleSteps) : n \in 1 .. (MaxAngle - 1) \div 2}

\* C32: for all angles a and b in (-pi, pi] the shortest-arc subtraction
\* returns a d with -pi < d <= pi that differs from a - b by a whole number
\* of turns; and d(pi - e, -pi + e) = -2e for small e > 0.
C32_ShortestArc ==
    subResult # NoResult =>
        /\ FLt(FInt(-Pi), subResult[1]) /\ FLe(subResult[1], FInt(Pi))
        /\ FDiv(FSub(FSub(subState1[1], subState2[1]), subResult[1]), FInt(TwoPi)).d = 1
        /\ \A e \in SmallEpsilons :
               /\ subState1[1] = FSub(FInt(Pi), e)
               /\ subState2[1] = FAdd(FInt(-Pi), e)
               => subResult[1] = FSub(FInt(0), FAdd(e, e))

\* The difference of pi - e and -pi + e, e one step, has been taken.
C32_Witness ==
    /\ subResult # NoResult
    /\ subState1[1] = Fin(MaxAngle - 1, AngleSteps)
    /\ subState2[1] = Fin(1 - MaxAngle, AngleSteps)
    /\ subResult[1] = Fin(-2, AngleSteps)

\* floor(word * 1024 / 10^6) mod 2^16 by long division of the 42-bit
\* product, bit by bit; of the quotient only the low 16 bits are kept.
RECURSIVE Scaled1024(_, _, _, _)
Scaled1024(word, j, rem, quot) ==
    IF j < 0 THEN quot
    ELSE Scaled1024(word, j - 1, (2 * rem + BitOf(word, j - 10)) % 1000000,
                    (2 * quot + (2 * rem + BitOf(word, j - 10)) \div 1000000) % 2^16)

\* C33: for every 32-bit time in microseconds the BLE crank-event time
\* scaling returns floor(us * 1024 / 10^6) mod 2^16, and no intermediate
\* value overflows 32 bits.
C33_ScaleTimeExact ==
    scaleTime # NoResult =>
        /\ scaleTime.time = Scaled1024(scaleUs, 41, 0, 0)
        /\ scaleTime.shiftedOut = 0

\* The largest 32-bit time has been scaled.
C33_Witness ==
    /\ scaleTime # NoResult
    /\ scaleUs = <<65535, 65535>>
    /\ scaleTime.time = 7134

\* C34: in the BLE measurement payload bytes 2 and 3 hold the record's power
\* as a little-endian signed 16-bit number, byte 2 the low and byte 3 the
\* high byte, for every power of the int16 range.
C34_PowerLittleEndian ==
    m_measData # NoResult =>
        /\ m_measData[2] = ((blePower + 2^16) % 2^16) % 2^8
        /\ m_measData[3] = ((blePower + 2^16) % 2^16) \div 2^8

\* A power of 100 W has been packed with 1 in byte 3.
C34_Witness ==
    /\ m_measData # NoResult
    /\ blePower = 100
    /\ m_measData[2] = 100
    /\ m_measData[3] = 1

----------------------------------------------------------------------------
(* The accept-data flag and the states of the connection *)

\* The connection task has returned from one enter function and has not yet
\* run the first statement of the next.
AtStateEntry == connPc \in {"enter", "s1"}

\* C36: the accept-data flag is true only while the connection state machine
\* is in Active: Disabled, every Connect state and Shutdown set it to false
\* as the first thing on entry, and only Active's entry sets it to true.
C36_FlagTrueOnlyInActive ==
    /\ [](m_connected => connState = "Active" \/ AtStateEntry)
    /\ [][(~m_connected /\ m_connected') => (connState = "Active" /\ connPc = "enter")]_vars
    /\ [][(connState # "Active" /\ AtStateEntry /\ connPc' # connPc) => ~m_connected']_vars

\* Active has set the flag and a disable request is waiting for its loop.
C36_Witness ==
    /\ m_connected
    /\ connState = "Active" /\ connPc = "loop"
    /\ CONN_NOTIFY_DISABLE \in connNotifyValue

----------------------------------------------------------------------------
(* Interrupt times and the filter's timestamp *)

\* C37: whenever a side task calls predict with its ADC interrupt's time, that
\* time is not earlier than the filter's stored last-update time, so that the
\* unsigned time step does not wrap; also when an IMU update runs between the
\* ADC interrupt and the query.
C37_QueryNotBeforeUpdate == predPc = "done" => predTime >= predUsedStamp

\* A query has been made with an interrupt time older than the last update.
C37_Witness == predPc = "done" /\ updates > 0 /\ predTime < predUsedStamp

----------------------------------------------------------------------------
(* The rotation of a rendezvous record *)

\* C38: on a successful rendezvous the left and the right average power of
\* the record were both computed for the same completed rotation, the one
\* whose count the record carries; also when a further rotation completes
\* while the low-speed task is reading.
C38_PowersOfTheCountedRotation ==
    RendezvousRecord =>
        /\ lsLeftRotation = lsRightRotation
        /\ lsRightRotation = lsRecord.rotationCount

\* A record that counts one rotation carries a right power computed for the
\* rotation after it.
C38_Witness ==
    /\ lsPc = "check" /\ lsSuccess
    /\ lsRecord.rotationCount = 1
    /\ lsLeftRotation = 1
    /\ lsRightRotation = 2

----------------------------------------------------------------------------
(* Start-up of the connection: setup, enable, the first connect *)

\* The firmware from setup on while the top level stays in StateActive,
\* each pass of whose loop takes ten seconds.
NextEnable ==
    \/ AddToQueueCheck
    \/ AddToQueueSend
    \/ ConnTaskStart
    \/ DisabledEnter
    \/ DisabledWait
    \/ WiFiConnectEnter
    \/ WiFiConnectPoll
    \/ MQTTConnectEnter
    \/ MQTTConnectPoll
    \/ MQTTConnectDelay
    \/ MQTTActiveEnter
    \/ MQTTActiveLoop
    \/ BLEConnectEnter
    \/ BLEConnectPoll
    \/ BLEActiveEnter
    \/ BLEActiveLoop
    \/ WifiConnects
    \/ LinkDrops
    \/ CentralChanges
    \/ TopSetupDone
    \/ TopEnable

\* The connection task and the loop task have the same priority and are
\* time-sliced: each of them runs again whenever it is ready and the tasks
\* of higher priority are blocked, which in StateDisabled they always are,
\* as no record is accepted.
FairEnable ==
    /\ WF_vars(ConnTaskStart)
    /\ WF_vars(DisabledEnter)
    /\ WF_vars(DisabledWait)
    /\ WF_vars(TopSetupDone)
    /\ WF_vars(TopEnable)

SpecEnable == InitConn /\ [][NextEnable]_vars /\ FairEnable

----------------------------------------------------------------------------
(* enable() and the task handle *)

----------------------------------------------------------------------------
(* enable() and disable() in any order *)

\* This many calls of enable() and disable() are made.
MaxCalls == 3

\* What a call leaves alone.
callFrame ==
    <<imuVars, historyVars, sideVars, lowVars, published, kalmanVars, calVars, topVars,
      confVars, imuCountVars, powerVars, sectorVars, queryVars, snapVars, pureVars,
      rendVars>>

\* Connection::enable() or Connection::disable(), called by the loop task
\* once setup has returned.
Call(name, bits) ==
    /\ topPc = "boot"
    /\ calls < MaxCalls
    /\ SendNotification(bits)
    /\ lastCall' = name
    /\ calls' = calls + 1
    /\ UNCHANGED <<transport, connState, connPc, m_taskHandle, m_connected, wifiUp, mqttUp,
                   bleCentral, bleAdvertising, queues, prodPc, observed, topPc>>
    /\ UNCHANGED callFrame

CallEnable == Call("enable", CONN_NOTIFY_ENABLE)

CallDisable == Call("disable", CONN_NOTIFY_DISABLE)

\* The MQTT connection is the one selected.
InitCalls == InitConn /\ transport = "MQTT"

\* One step of the connection task.
ConnectionTask ==
    \/ ConnTaskStart
    \/ DisabledEnter
    \/ DisabledWait
    \/ WiFiConnectEnter
    \/ WiFiConnectPoll
    \/ MQTTConnectEnter
    \/ MQTTConnectPoll
    \/ MQTTConnectDelay
    \/ MQTTActiveEnter
    \/ MQTTActiveLoop
    \/ ShutdownRun

NextCalls ==
    \/ ConnectionTask
    \/ WifiConnects
    \/ LinkDrops
    \/ TopSetupDone
    \/ CallEnable
    \/ CallDisable

\* No producer runs, so the connection task is never kept from the
\* processor: it takes its next step whenever it is not blocked.  The calls
\* and the network are left free.
FairCalls == WF_vars(ConnectionTask) /\ WF_vars(TopSetupDone)

SpecCalls == InitCalls /\ [][NextCalls]_vars /\ FairCalls

\* The connection is where the most recent call wants it.
Settled ==
    /\ lastCall = "disable" => connState = "Disabled"
    /\ lastCall = "enable" => connState \in {"WiFiConnect", "MQTTConnect", "Active"}

\* C40: after any sequence of enable() and disable() calls, once no further
\* call is made the connection settles according to the most recent one:
\* Disabled after disable(), a Connect state or Active after enable(); a
\* notification bit left over from an earlier call neither makes a later
\* enable shut the connection down nor a later disable be ignored.
C40_SettlesToLastCall == <>[]Settled

\* The most recent call was enable() and the connection task is blocked in
\* Disabled with nothing pending.
C40_Witness ==
    /\ lastCall = "enable"
    /\ connState = "Disabled" /\ connPc = "wait"
    /\ ~connNotifyPending


\* A record goes into side s's high-speed queue.
HighSpeedEnqueued(s) == SideWake(s) /\ Len(queues'[s]) > Len(queues[s])

\* C10: with one ADC dead, the dead side's task still sets its bit in the
\* low-speed notification word after each change of the rotation count, the
\* low-speed task keeps handing records to the connection, and the side whose
\* ADC is alive keeps putting records into its high-speed queue.
C10_DeadSideDoesNotStall ==
    /\ [](RotationSeen(DeadSide) =>
             <>(~RotationSeen(DeadSide) /\ SideBit(DeadSide) \in lsNotifyValue))
    /\ []<>(lsPc = "send")
    /\ []<><<HighSpeedEnqueued(LiveSide)>>_vars

\* The dead side has answered a rotation, and records are in the live side's
\* queue and in the low-speed queue.
C10_Witness ==
    /\ ~adcAlive[DeadSide]
    /\ rotations > 0 /\ m_lastRotation[DeadSide] = rotations
    /\ SideBit(DeadSide) \in lsNotifyValue
    /\ Len(queues[LiveSide]) > 0
    /\ Len(LowSpeedQueue) > 0

====
